---- MODULE Spec2Model ----
(***************************************************************************)
(* A model of the opgrind schema engine (src/schema/api.py,               *)
(* src/schema/base.py) and of the gather_nd schema (src/ops/gather_nd.py). *)
(*                                                                         *)
(* Strings of index letters (signatures) are sequences of one-letter      *)
(* strings; an index is a one-letter string and, as a dictionary key of   *)
(* the rank limits, the signature of length one.  An optional argument    *)
(* (None or a value) is the empty set or a singleton.                      *)
(***************************************************************************)
EXTENDS Integers, Sequences, FiniteSets, TLC

VARIABLES
    \* the rank registry
    index,        \* SchemaApi.index: the registered index letters, in insertion order
    mins,         \* RankCandidates.mins: sig -> min rank
    maxs,         \* RankCandidates.maxs: sig -> max rank
    equiv,        \* RankCandidates.equiv: target index -> source index
    registered,   \* history: the (sig, lo, hi) triples add_rank_limits accepted
    \* arguments and signatures
    params,       \* SchemaApi.params: argument name -> the kind of its node
    arg_sigs,     \* the pr.Sig / ge.Sig nodes: shape argument -> signature
    rank_cons,    \* SchemaApi.rank_cons: the rank constraints, in order
    ret_sigs,     \* the signatures of the return tensors, in order
    \* computed dimensions
    comp_indices, \* CompDimsGraph.comp_indices: index -> its computation, with
                  \* the min_val computed_index was called with (history)
    input_indices,\* CompDimsGraph.input_indices: the input indices
    index_preds,  \* the pr.IndexDimsConstraint nodes, in order
    comp_dims_templates, \* SchemaApi.comp_dims_templates: index -> template node
    pending_index_edges, \* SchemaApi.pending_index_edges: node name -> indices
    pending_pred_edges,  \* SchemaApi.pending_pred_edges: node name -> parent names
    \* dtypes, layouts, options
    dtype_valid,  \* DTypeConstraints: tensor -> allowed dtypes
    dtype_equiv,  \* DTypeConstraints: target tensor -> source tensor
    excluded,     \* DTypeConstraints: the excluded combinations
    excl_log,     \* history: the (fields, exclude item) pairs exclude_dtypes accepted
    formats,      \* DataFormats: formats maps data_format -> (layout, rank),
                  \* order is the order of the items of that dictionary
    df_ret,       \* the last DataFormats.data_format call: layout, ranks, value
    options,      \* the pr.Options / ge.Options nodes: argument -> allowed values
    \* construction
    finalized,    \* TRUE once _init_schema has run _finalize
    ret,          \* the last authoring call, its arguments and what it raised
    pc,           \* position in init_schema_func, when the schema is a fixed one
    \* enumeration
    enum_status,  \* outcome of the last all_index_ranks: "none", "ok" or the exception
    yielded,      \* the rank maps the last all_index_ranks yielded, in order
    gen_configs,  \* the configurations the generative graph produced, in order
    \* call state
    arguments,    \* SchemaApi.arguments: the bound arguments of the call
    input_status, \* SchemaApi.input_status
    predicted,    \* the values of the pr.PredictedShape nodes of the call
    returns,      \* SchemaApi.returns: the shapes of the tensors the op returned
    framework_status, \* SchemaApi.framework_status
    \* the callers
    calls,        \* caller -> the step its call is at, the arguments it
                  \* passed and what it read back from the schema
    \* the diagnostics
    diagnosis     \* the last call of a method of a constraint: the method,
                  \* the constraint, the input and what the call gave

rankReg == <<index, mins, maxs, equiv, registered>>

sigReg == <<params, arg_sigs, rank_cons, ret_sigs>>

compReg == <<comp_indices, input_indices, index_preds, comp_dims_templates,
             pending_index_edges, pending_pred_edges>>

dtypeReg == <<dtype_valid, dtype_equiv, excluded, excl_log>>

optReg == <<formats, df_ret, options>>

enumVars == <<enum_status, yielded, gen_configs>>

callVars == <<arguments, input_status, predicted, returns, framework_status>>

vars == <<rankReg, sigReg, compReg, dtypeReg, optReg, finalized, ret, pc,
          enumVars, callVars, calls, diagnosis>>

-----------------------------------------------------------------------------
(* Bounds of the model *)

\* number of distinct rank limit declarations in one schema
MaxRegistered == 2
\* the lower rank limit passed to add_index / limit_ranks, when one is given
MinLimit == 1
\* the upper rank limit passed to add_index / limit_ranks, when one is given
MaxLimit == 2
\* stands for the enumeration cap on the rank of one index
RankCap == 3

\* the default of maxs.get(sig, 10000) in add_rank_limits
DefaultMax == 10000
\* the default of mins.get(sig, -1) in add_rank_limits
DefaultMin == -1

Letters == {"a", "b", "c"}

\* the signatures passed to limit_ranks: one index, or two different ones
Sigs == { <<x>> : x \in Letters }
            \cup UNION { { <<x, y>> : y \in Letters \ {x} } : x \in Letters }

\* an optional rank limit: None is {}, a value v is {v}
OptMin == {{}, {MinLimit}}

OptMax == {{}, {MaxLimit}}

Val(opt) == CHOOSE v \in opt : TRUE

Max(x, y) == IF x >= y THEN x ELSE y

Min(x, y) == IF x <= y THEN x ELSE y

Range(s) == { s[i] : i \in 1..Len(s) }

RECURSIVE SumSeq(_)
SumSeq(s) == IF s = <<>> THEN 0 ELSE s[1] + SumSeq(Tail(s))

\* the elements of a finite set, as a sequence
RECURSIVE SetToSeq(_)
SetToSeq(s) ==
    IF s = {} THEN <<>>
    ELSE LET x == CHOOSE y \in s : TRUE IN <<x>> \o SetToSeq(s \ {x})

\* fgraph.node_name(cls, name): the name of the node of a class
node_name(cls, name) == cls \o "(" \o name \o ")"

\* dict[key] = value
Put(f, k, v) == [x \in DOMAIN f \cup {k} |-> IF x = k THEN v ELSE f[x]]

\* dict.get(key, default)
Get(f, k, default) == IF k \in DOMAIN f THEN f[k] ELSE default

EmptyMap == [x \in {} |-> 0]

\* a dictionary, or an object with named attributes, from its (key, value)
\* pairs
Record(kv) ==
    [k \in { kv[i][1] : i \in 1..Len(kv) } |->
        kv[CHOOSE i \in 1..Len(kv) : kv[i][1] = k][2]]

-----------------------------------------------------------------------------
(* RankCandidates, src/schema/base.py *)

\* AddMin keeping the smaller of the previous and the new minimum
AddMin_KeepSmaller(mn, sig, min_val) ==
    IF min_val # {}
    THEN Put(mn, sig, Min(Get(mn, sig, DefaultMin), Val(min_val)))
    ELSE mn

\* mins after add_rank_limits(sig, min_val, max_val)
AddMin(mn, sig, min_val) ==
    IF min_val # {}
    THEN Put(mn, sig, Max(Get(mn, sig, DefaultMin), Val(min_val)))
    ELSE mn

\* maxs when the last max_val given replaces the one before
AddMax_LastGiven(mx, sig, max_val) ==
    IF max_val # {} THEN Put(mx, sig, Val(max_val)) ELSE mx

\* maxs after add_rank_limits(sig, min_val, max_val)
AddMax(mx, sig, max_val) ==
    IF max_val # {}
    THEN Put(mx, sig, Min(Get(mx, sig, DefaultMax), Val(max_val)))
    ELSE mx

index_limited(idx) == <<idx>> \in DOMAIN mins \/ <<idx>> \in DOMAIN maxs

index_equated(idx) == idx \in DOMAIN equiv

\* _check_sig: every letter of the signature is a registered index
check_sig(sig) == \A i \in 1..Len(sig) : sig[i] \in Range(index)


\* fi = [ k for k in self.op.index.keys() if k not in self.equiv ]
FreeIndexes(idx, eq) == SelectSeq(idx, LAMBDA k : k \notin DOMAIN eq)

\* list.index(x), one-based
IndexOf(seq, x) == CHOOSE i \in 1..Len(seq) : seq[i] = x

\* tuple(fi.index(s) for s in sig)
PosTuple(fi, sig) == [i \in 1..Len(sig) |-> IndexOf(fi, sig[i])]

\* { tuple(fi.index(s) for s in sig): rank for sig, rank in limits.items() }
PosMap(fi, limits) ==
    [p \in { PosTuple(fi, s) : s \in DOMAIN limits } |->
        limits[CHOOSE s \in DOMAIN limits : PosTuple(fi, s) = p]]

\* fi.index(s) raises ValueError when s is not in fi
PosMapRaises(fi, limits) ==
    \E s \in DOMAIN limits : \E i \in 1..Len(s) : s[i] \notin Range(fi)

-----------------------------------------------------------------------------
(* util.feasible_region: depth-first enumeration of the rank tuples, in    *)
(* index order, each rank in 0..RankCap; a branch is pruned as soon as a   *)
(* range constraint all of whose positions are assigned is violated.       *)

SumAt(ranks, p) == SumSeq([i \in 1..Len(p) |-> ranks[p[i]]])

Determined(p, n) == \A i \in 1..Len(p) : p[i] <= n

Feasible(prefix, min_map, max_map) ==
    /\ \A p \in DOMAIN min_map :
          Determined(p, Len(prefix)) => SumAt(prefix, p) >= min_map[p]
    /\ \A p \in DOMAIN max_map :
          Determined(p, Len(prefix)) => SumAt(prefix, p) <= max_map[p]

RECURSIVE Region(_, _, _, _)
RECURSIVE Branches(_, _, _, _, _)
Region(prefix, k, min_map, max_map) ==
    IF ~Feasible(prefix, min_map, max_map) THEN <<>>
    ELSE IF Len(prefix) = k THEN <<prefix>>
    ELSE Branches(prefix, 0, k, min_map, max_map)

Branches(prefix, v, k, min_map, max_map) ==
    IF v > RankCap THEN <<>>
    ELSE Region(Append(prefix, v), k, min_map, max_map)
            \o Branches(prefix, v + 1, k, min_map, max_map)

feasible_region(k, min_map, max_map) == Region(<<>>, k, min_map, max_map)

-----------------------------------------------------------------------------
(* RankCandidates.all_index_ranks *)

\* add_equiv without rank_map.update(**eq_map)
add_equiv_NoUpdate(fi, eq, ranks) ==
    [x \in Range(fi) |-> ranks[IndexOf(fi, x)]]

\* rank_map = dict(zip(fi, ranks)); rank_map.update(**eq_map)
add_equiv(fi, eq, ranks) ==
    [x \in Range(fi) \cup DOMAIN eq |->
        IF x \in DOMAIN eq THEN ranks[IndexOf(fi, eq[x])]
        ELSE ranks[IndexOf(fi, x)]]

\* rank_map[s] raises KeyError when the source s is not a free index
EqMapRaises(fi, eq) == \E t \in DOMAIN eq : eq[t] \notin Range(fi)

\* what the call raises: "ok" when the generator runs to its end
all_index_ranks_status(idx, mn, mx, eq) ==
    LET fi == FreeIndexes(idx, eq) IN
    IF PosMapRaises(fi, mn) \/ PosMapRaises(fi, mx) THEN "ValueError"
    ELSE IF /\ EqMapRaises(fi, eq)
            /\ feasible_region(Len(fi), PosMap(fi, mn), PosMap(fi, mx)) # <<>>
         THEN "KeyError"
    ELSE "ok"

\* the rank maps the call yields, in order
all_index_ranks(idx, mn, mx, eq) ==
    LET fi == FreeIndexes(idx, eq) IN
    IF all_index_ranks_status(idx, mn, mx, eq) # "ok" THEN <<>>
    ELSE LET gen == feasible_region(Len(fi), PosMap(fi, mn), PosMap(fi, mx))
         IN  [n \in 1..Len(gen) |-> add_equiv(fi, eq, gen[n])]


-----------------------------------------------------------------------------
(* The authoring calls of SchemaApi, made by init_schema_func inside       *)
(* _init_schema.  A call that raises ends the construction: _init_schema   *)
(* does not catch, so no further call is made and _finalize is not run.    *)
(* Each call below states its effect on the schema registries and on ret;  *)
(* Author(A) is the call A made while the schema is being built.           *)

\* a call of a method of a constraint, op "none" before the call is made
Diagnosis(op, con, input, result) ==
    Record(<< <<"op", op>>, <<"con", con>>, <<"input", input>>,
              <<"result", result>> >>)

NoDiagnosis == Diagnosis("none", <<>>, <<>>, <<>>)

Call(op, target, source, raised) ==
    Record(<< <<"op", op>>, <<"target", target>>, <<"source", source>>,
              <<"raised", raised>> >>)

Building == ~finalized /\ ret.raised = "none"

Author(A) ==
    Building /\ A /\ UNCHANGED <<finalized, enumVars, callVars, calls, diagnosis>>

\* SchemaApi.add_index(idx, description, min_rank, max_rank)
add_index(idx, min_rank, max_rank) ==
    /\ index' = IF idx \in Range(index) THEN index ELSE Append(index, idx)
    /\ IF min_rank # {} \/ max_rank # {}
       THEN /\ mins' = AddMin(mins, <<idx>>, min_rank)
            /\ maxs' = AddMax(maxs, <<idx>>, max_rank)
            /\ registered' = registered \cup {<<(<<idx>>), min_rank, max_rank>>}
       ELSE UNCHANGED <<mins, maxs, registered>>
    /\ ret' = Call("add_index", "", "", "none")
    /\ UNCHANGED <<equiv, sigReg, compReg, dtypeReg, optReg>>

\* RankCandidates.add_rank_limits(sig, min_val, max_val)
add_rank_limits(sig, min_val, max_val) ==
    /\ mins' = AddMin(mins, sig, min_val)
    /\ maxs' = AddMax(maxs, sig, max_val)
    /\ registered' = IF min_val # {} \/ max_val # {}
                     THEN registered \cup {<<sig, min_val, max_val>>}
                     ELSE registered
    /\ ret' = Call("add_rank_limits", "", "", "none")
    /\ UNCHANGED <<index, equiv, sigReg, compReg, dtypeReg, optReg>>

\* SchemaApi.limit_ranks(sig, min_val, max_val)
limit_ranks(sig, min_val, max_val) ==
    /\ IF ~check_sig(sig)
       THEN /\ ret' = Call("limit_ranks", "", "", "SchemaError")
            /\ UNCHANGED <<mins, maxs, registered>>
       ELSE /\ mins' = AddMin(mins, sig, min_val)
            /\ maxs' = AddMax(maxs, sig, max_val)
            /\ registered' = IF min_val # {} \/ max_val # {}
                             THEN registered \cup {<<sig, min_val, max_val>>}
                             ELSE registered
            /\ ret' = Call("limit_ranks", "", "", "none")
    /\ UNCHANGED <<index, equiv, sigReg, compReg, dtypeReg, optReg>>

\* equate_ranks_raises without the index_equated(target_index) check
equate_ranks_raises_NoEquatedCheck(target_index, source_index) ==
    \/ target_index \notin Range(index)
    \/ index_limited(target_index)
    \/ ~index_limited(source_index)

\* the three checks of SchemaApi.equate_ranks, in order
equate_ranks_raises(target_index, source_index) ==
    \/ target_index \notin Range(index)
    \/ index_limited(target_index) \/ index_equated(target_index)
    \/ ~index_limited(source_index)

\* SchemaApi.equate_ranks(target_index, source_index)
equate_ranks(target_index, source_index) ==
    /\ IF equate_ranks_raises(target_index, source_index)
       THEN /\ ret' = Call("equate_ranks", target_index, source_index,
                           "SchemaError")
            /\ UNCHANGED equiv
       ELSE /\ equiv' = Put(equiv, target_index, source_index)
            /\ ret' = Call("equate_ranks", target_index, source_index,
                           "none")
    /\ UNCHANGED <<index, mins, maxs, registered, sigReg, compReg, dtypeReg,
                   optReg>>

-----------------------------------------------------------------------------
(* Layouts, DataFormats of src/schema/base.py.  formats maps a data_format *)
(* to the pair (layout, rank), the rank being optional; order lists the    *)
(* data formats as the dictionary iterates them.                           *)

\* DataFormats.__init__(arg_name, None, None): the single default format
DefaultFormats ==
    Record(<< <<"arg_name", "">>, <<"rank_index", "">>,
              <<"formats", Record(<< <<":default", <<0, {}>> >> >>)>>,
              <<"order", <<":default">> >> >>)

\* no data_format call was made
NoLookup == Record(<< <<"layout", -1>>, <<"ranks", <<>> >>, <<"value", {}>> >>)

\* num_layouts that takes every data format for a format of one layout
num_layouts_One(dfs) == 1

\* DataFormats.num_layouts
num_layouts(dfs) == Cardinality({ dfs.formats[df][1] : df \in DOMAIN dfs.formats })

\* the generator expressions of data_format: the positions, in the order of
\* formats.items(), of the formats of the layout that fit the rank of
\* rank_index
FormatMatches(dfs, layout, ranks) ==
    IF dfs.rank_index = ""
    THEN { n \in 1..Len(dfs.order) : dfs.formats[dfs.order[n]][1] = layout }
    ELSE { n \in 1..Len(dfs.order) :
              /\ dfs.formats[dfs.order[n]][1] = layout
              /\ \/ dfs.formats[dfs.order[n]][2] = {}
                 \/ dfs.formats[dfs.order[n]][2] = {ranks[dfs.rank_index]} }

\* data_format with generator expressions that compare the layout only
data_format_LayoutOnly(dfs, layout, ranks) ==
    LET m == { n \in 1..Len(dfs.order) : dfs.formats[dfs.order[n]][1] = layout }
    IN  IF m = {} THEN {}
        ELSE {dfs.order[CHOOSE n \in m : \A k \in m : n <= k]}

\* DataFormats.data_format(layout, ranks): next(...) takes the first match,
\* or None, which is {}
data_format(dfs, layout, ranks) ==
    LET m == FormatMatches(dfs, layout, ranks)
    IN  IF m = {} THEN {}
        ELSE {dfs.order[CHOOSE n \in m : \A k \in m : n <= k]}

\* DataFormats.__init__(arg_name, formats, rank_index): formats is None ({})
\* or the items <<data_format, layout, rank>> of the dictionary, in order
DataFormats_init(arg_name, fmts, rank_index) ==
    /\ formats' =
          IF fmts = {}
          THEN Record(<< <<"arg_name", arg_name>>, <<"rank_index", "">>,
                         <<"formats", DefaultFormats.formats>>,
                         <<"order", DefaultFormats.order>> >>)
          ELSE LET it == Val(fmts) IN
               Record(<< <<"arg_name", arg_name>>, <<"rank_index", rank_index>>,
                         <<"formats",
                           [df \in { it[n][1] : n \in 1..Len(it) } |->
                               LET n == CHOOSE n \in 1..Len(it) : it[n][1] = df
                               IN  <<it[n][2], it[n][3]>>]>>,
                         <<"order", [n \in 1..Len(it) |-> it[n][1]]>> >>)
    /\ df_ret' = NoLookup
    /\ UNCHANGED <<rankReg, sigReg, compReg, dtypeReg, options, finalized, ret,
                   enumVars, callVars, calls, diagnosis>>

\* a call of DataFormats.data_format(layout, ranks)
call_data_format(layout, ranks) ==
    /\ df_ret' = Record(<< <<"layout", layout>>, <<"ranks", ranks>>,
                           <<"value", data_format(formats, layout, ranks)>> >>)
    /\ UNCHANGED <<rankReg, sigReg, compReg, dtypeReg, formats, options,
                   finalized, ret, pc, enumVars, callVars, calls, diagnosis>>

\* _check_sigs_layout: one signature is broadcast over the layouts
check_sigs_layout(sigs) ==
    IF Len(sigs) = 1 THEN [l \in 1..num_layouts(formats) |-> sigs[1]] ELSE sigs

\* _check_sigs_layout raises: the message reads self.num_layouts, which
\* SchemaApi does not have
check_sigs_layout_raises(sigs) ==
    Len(check_sigs_layout(sigs)) # num_layouts(formats)

-----------------------------------------------------------------------------
(* Argument declarations *)

\* the rank constraints registered by arg_tensor, arg_rank, rank_dims_constraint
ShapeRankConstraint(shape_arg) ==
    Record(<< <<"cls", "ShapeRankConstraint">>, <<"shape_arg", shape_arg>>,
              <<"rank_sig", <<>> >>, <<"rank_arg", "">>, <<"get_dims", "">>,
              <<"source_idx", "">> >>)

IntRankConstraint(rank_arg, rank_sig) ==
    Record(<< <<"cls", "IntRankConstraint">>, <<"shape_arg", "">>,
              <<"rank_sig", rank_sig>>, <<"rank_arg", rank_arg>>,
              <<"get_dims", "">>, <<"source_idx", "">> >>)

DimRankConstraint(rank_sig, shape_arg, get_dims, source_idx) ==
    Record(<< <<"cls", "DimRankConstraint">>, <<"shape_arg", shape_arg>>,
              <<"rank_sig", rank_sig>>, <<"rank_arg", "">>,
              <<"get_dims", get_dims>>, <<"source_idx", source_idx>> >>)

\* SchemaApi._is_data_tensor
is_data_tensor(name) == name \in DOMAIN params /\ params[name] = "tensor"

\* SchemaApi.arg_tensor(arg_name, *sigs)
arg_tensor(arg_name, sigs) ==
    /\ IF check_sigs_layout_raises(sigs)
       THEN /\ ret' = Call("arg_tensor", "", "", "AttributeError")
            /\ UNCHANGED sigReg
       ELSE /\ params' = Put(params, arg_name, "tensor")
            /\ arg_sigs' = Put(arg_sigs, arg_name, check_sigs_layout(sigs))
            /\ rank_cons' = Append(rank_cons, ShapeRankConstraint(arg_name))
            /\ ret' = Call("arg_tensor", "", "", "none")
            /\ UNCHANGED ret_sigs
    /\ UNCHANGED <<rankReg, compReg, dtypeReg, optReg>>

\* SchemaApi.arg_rank(arg_name, sig)
arg_rank(arg_name, sig) ==
    /\ rank_cons' = Append(rank_cons, IntRankConstraint(arg_name, sig))
    /\ params' = Put(params, arg_name, "rank")
    /\ ret' = Call("arg_rank", "", "", "none")
    /\ UNCHANGED <<rankReg, arg_sigs, ret_sigs, compReg, dtypeReg, optReg>>

\* SchemaApi.arg_unchecked(arg_name)
arg_unchecked(arg_name) ==
    /\ params' = Put(params, arg_name, "unchecked")
    /\ ret' = Call("arg_unchecked", "", "", "none")
    /\ UNCHANGED <<rankReg, arg_sigs, rank_cons, ret_sigs, compReg, dtypeReg,
                   optReg>>

\* SchemaApi.rank_dims_constraint(name, get_dims, rank_sig, dims_index, shape_arg)
rank_dims_constraint(get_dims, rank_sig, dims_index, shape_arg) ==
    /\ rank_cons' = Append(rank_cons,
            DimRankConstraint(rank_sig, shape_arg, get_dims, dims_index))
    /\ IF shape_arg \notin DOMAIN params
       THEN /\ ret' = Call("rank_dims_constraint", "", "", "KeyError")
            /\ UNCHANGED input_indices
       ELSE /\ input_indices' = input_indices \cup {dims_index}
            /\ ret' = Call("rank_dims_constraint", "", "", "none")
    /\ UNCHANGED <<rankReg, params, arg_sigs, ret_sigs, comp_indices,
                   index_preds, comp_dims_templates, pending_index_edges,
                   pending_pred_edges, dtypeReg, optReg>>

\* SchemaApi.return_tensor(*sigs)
return_tensor(sigs) ==
    /\ IF check_sigs_layout_raises(sigs)
       THEN /\ ret' = Call("return_tensor", "", "", "AttributeError")
            /\ UNCHANGED <<ret_sigs, pending_index_edges>>
       ELSE /\ ret_sigs' = Append(ret_sigs, check_sigs_layout(sigs))
            /\ pending_index_edges' =
                  Put(pending_index_edges,
                      node_name("PredictedShape", ToString(Len(ret_sigs))),
                      SetToSeq(UNION { Range(sigs[i]) : i \in 1..Len(sigs) }))
            /\ ret' = Call("return_tensor", "", "", "none")
    /\ UNCHANGED <<rankReg, params, arg_sigs, rank_cons, comp_indices,
                   input_indices, index_preds, comp_dims_templates,
                   pending_pred_edges, dtypeReg, optReg>>

-----------------------------------------------------------------------------
(* DTypes.  A value passed by the schema author is a record: a string that *)
(* the pattern ([a-z]+)(8|16|32|64|128)?([\+\-])? matches is StrV with the *)
(* three captures (a missing capture is {}), an integer is IntV, None is   *)
(* NoneV.                                                                  *)

StrV(pfx, q, rng) ==
    Record(<< <<"kind", "str">>, <<"pfx", pfx>>, <<"q", q>>, <<"rng", rng>>,
              <<"n", 0>> >>)

IntV(n) ==
    Record(<< <<"kind", "int">>, <<"pfx", "">>, <<"q", {}>>, <<"rng", {}>>,
              <<"n", n>> >>)

NoneV ==
    Record(<< <<"kind", "None">>, <<"pfx", "">>, <<"q", {}>>, <<"rng", {}>>,
              <<"n", 0>> >>)

\* the table exprs of _dtype_expr: family -> sizes
exprs ==
    [pfx \in {"int", "uint", "float", "qint", "bfloat", "bool", "complex"} |->
        CASE pfx = "int"     -> <<"8", "16", "32", "64">>
          [] pfx = "uint"    -> <<"8", "16", "32", "64">>
          [] pfx = "float"   -> <<"16", "32", "64">>
          [] pfx = "qint"    -> <<"8", "16", "32">>
          [] pfx = "bfloat"  -> <<"16">>
          [] pfx = "bool"    -> <<"">>
          [] pfx = "complex" -> <<"64", "128">>]

\* int(q) for the sizes the pattern admits
IntOf(q) ==
    CASE q = "8" -> 8 [] q = "16" -> 16 [] q = "32" -> 32 [] q = "64" -> 64
      [] q = "128" -> 128

\* the names tf.dtypes.as_dtype accepts among those the pattern can produce
TfDTypes ==
    UNION { { pfx \o exprs[pfx][i] : i \in 1..Len(exprs[pfx]) } :
            pfx \in DOMAIN exprs } \cup {"quint8", "quint16"}

\* _dtype_expr with '+' read as strictly larger
dtype_ids_StrictPlus(e) ==
    LET sizes == exprs[e.pfx] IN
    IF e.q = {} THEN [i \in 1..Len(sizes) |-> e.pfx \o sizes[i]]
    ELSE IF e.rng = {} THEN << e.pfx \o Val(e.q) >>
    ELSE IF e.rng = {"+"}
         THEN LET sel == SelectSeq(sizes, LAMBDA sz : IntOf(sz) > IntOf(Val(e.q)))
              IN  [i \in 1..Len(sel) |-> e.pfx \o sel[i]]
    ELSE LET sel == SelectSeq(sizes, LAMBDA sz : IntOf(sz) <= IntOf(Val(e.q)))
         IN  [i \in 1..Len(sel) |-> e.pfx \o sel[i]]

\* the list ids of _dtype_expr
dtype_ids(e) ==
    LET sizes == exprs[e.pfx] IN
    IF e.q = {} THEN [i \in 1..Len(sizes) |-> e.pfx \o sizes[i]]
    ELSE IF e.rng = {} THEN << e.pfx \o Val(e.q) >>
    ELSE IF e.rng = {"+"}
         THEN LET sel == SelectSeq(sizes, LAMBDA sz : IntOf(sz) >= IntOf(Val(e.q)))
              IN  [i \in 1..Len(sel) |-> e.pfx \o sel[i]]
    ELSE LET sel == SelectSeq(sizes, LAMBDA sz : IntOf(sz) <= IntOf(Val(e.q)))
         IN  [i \in 1..Len(sel) |-> e.pfx \o sel[i]]

\* what _dtype_expr(type_expr) raises: re.match on a non-string is a
\* TypeError, an unknown family a KeyError, the size '' of bool does not
\* compare with an integer, and "raise err" names an undefined variable
dtype_expr_raises(e) ==
    IF e.kind # "str" THEN "TypeError"
    ELSE IF e.q = {} \/ e.rng # {}
         THEN IF e.pfx \notin DOMAIN exprs THEN "KeyError"
              ELSE IF e.q # {} /\ e.pfx = "bool" THEN "TypeError"
              ELSE "none"
    ELSE IF e.pfx \o Val(e.q) \notin TfDTypes THEN "NameError"
    ELSE "none"

\* SchemaApi._dtype_expr(type_expr), when it returns
dtype_expr(e) == dtype_ids(e)

\* [ t for ex in type_list for t in self._dtype_expr(ex) ]
RECURSIVE FlatDTypes(_)
FlatDTypes(type_list) ==
    IF type_list = <<>> THEN <<>>
    ELSE dtype_expr(type_list[1]) \o FlatDTypes(Tail(type_list))

\* the first exception among the expressions of a list, "none" if none
RECURSIVE FirstRaise(_)
FirstRaise(type_list) ==
    IF type_list = <<>> THEN "none"
    ELSE IF dtype_expr_raises(type_list[1]) # "none"
         THEN dtype_expr_raises(type_list[1])
    ELSE FirstRaise(Tail(type_list))

\* valid_dtypes without the check of has_valid_dtypes
valid_dtypes_raises_NoSecondCheck(tensor_name, type_list) ==
    IF ~is_data_tensor(tensor_name) THEN "SchemaError"
    ELSE FirstRaise(type_list)

\* what valid_dtypes raises; the message of the second check reads
\* self.__qualname__, which an instance does not have
valid_dtypes_raises(tensor_name, type_list) ==
    IF ~is_data_tensor(tensor_name) THEN "SchemaError"
    ELSE IF tensor_name \in DOMAIN dtype_valid THEN "AttributeError"
    ELSE FirstRaise(type_list)

\* SchemaApi.valid_dtypes(tensor_name, type_list)
valid_dtypes(tensor_name, type_list) ==
    /\ ret' = Call("valid_dtypes", tensor_name, "",
                   valid_dtypes_raises(tensor_name, type_list))
    /\ IF valid_dtypes_raises(tensor_name, type_list) # "none"
       THEN UNCHANGED dtype_valid
       ELSE dtype_valid' = Put(dtype_valid, tensor_name, FlatDTypes(type_list))
    /\ UNCHANGED <<rankReg, sigReg, compReg, dtype_equiv, excluded, excl_log,
                   optReg>>

\* what equate_dtypes raises
equate_dtypes_raises(trg_tensor, src_tensor) ==
    IF ~(is_data_tensor(src_tensor) /\ is_data_tensor(trg_tensor))
    THEN "SchemaError"
    ELSE IF trg_tensor \in DOMAIN dtype_equiv THEN "SchemaError"
    ELSE "none"

\* SchemaApi.equate_dtypes(trg_tensor, src_tensor)
equate_dtypes(trg_tensor, src_tensor) ==
    /\ ret' = Call("equate_dtypes", trg_tensor, src_tensor,
                   equate_dtypes_raises(trg_tensor, src_tensor))
    /\ IF equate_dtypes_raises(trg_tensor, src_tensor) # "none"
       THEN UNCHANGED dtype_equiv
       ELSE dtype_equiv' = Put(dtype_equiv, trg_tensor, src_tensor)
    /\ UNCHANGED <<rankReg, sigReg, compReg, dtype_valid, excluded, excl_log,
                   optReg>>

\* the data formats of the first n layouts, layout by layout
RECURSIVE FormatOrder(_, _)
FormatOrder(layouts, n) ==
    IF n = 0 THEN <<>>
    ELSE LET r == SetToSeq(DOMAIN layouts[n])
         IN  FormatOrder(layouts, n - 1) \o [i \in 1..Len(r) |-> layouts[n][r[i]]]

\* DataFormats.configure(arg_name, layouts, rank_idx): layouts[l] maps a
\* rank of rank_idx to the data format of layout l at that rank
Configure(arg_name, layouts, rank_idx) ==
    Record(<< <<"arg_name", arg_name>>, <<"rank_index", rank_idx>>,
              <<"formats",
                [df \in UNION { { layouts[l][r] : r \in DOMAIN layouts[l] } :
                                l \in 1..Len(layouts) } |->
                    LET l == CHOOSE l \in 1..Len(layouts) :
                                \E r \in DOMAIN layouts[l] : layouts[l][r] = df
                        r == CHOOSE r \in DOMAIN layouts[l] : layouts[l][r] = df
                    IN  <<l - 1, {r}>>]>>,
              <<"order", FormatOrder(layouts, Len(layouts))>> >>)

\* SchemaApi.arg_layout(arg_name, layouts, rank_idx)
arg_layout(arg_name, layouts, rank_idx) ==
    /\ formats' = Configure(arg_name, layouts, rank_idx)
    /\ params' = Put(params, arg_name, "layout")
    /\ ret' = Call("arg_layout", "", "", "none")
    /\ UNCHANGED <<rankReg, arg_sigs, rank_cons, ret_sigs, compReg, dtypeReg,
                   df_ret,
                   options>>

-----------------------------------------------------------------------------
(* SchemaApi.exclude_dtypes(fields, *exclude) *)

\* the tensors list after the loop over the first n fields
RECURSIVE ExTensors(_, _)
ExTensors(fields, n) ==
    IF n = 0 THEN <<>>
    ELSE LET t == ExTensors(fields, n - 1) IN
         IF is_data_tensor(fields[n]) /\ fields[n] \notin Range(t)
         THEN Append(t, fields[n]) ELSE t

\* field n is read as a tensor, an index, the layout, or is rejected
FieldKind(fields, n) ==
    IF is_data_tensor(fields[n]) /\ fields[n] \notin Range(ExTensors(fields, n - 1))
    THEN "tensor"
    ELSE IF fields[n] \in Range(index) THEN "index"
    ELSE IF fields[n] = ":layout" THEN "layout"
    ELSE "SchemaError"

ExIndexes(fields) ==
    SelectSeq([n \in 1..Len(fields) |-> <<fields[n], FieldKind(fields, n)>>],
              LAMBDA fk : fk[2] = "index")

HasLayout(fields) == \E n \in 1..Len(fields) : FieldKind(fields, n) = "layout"

\* itertools.product(*dtype_bases)
RECURSIVE Product(_)
Product(bases) ==
    IF bases = <<>> THEN { <<>> }
    ELSE { <<d>> \o rest : d \in Range(bases[1]), rest \in Product(Tail(bases)) }

\* the values of an exclude item are read in the order tensors, indexes,
\* layout: the dtype expressions, the ranks, the layout
ItemDTypes(fields, ex) == SubSeq(ex, 1, Len(ExTensors(fields, Len(fields))))

ItemRank(fields, ex, p) == ex[Len(ExTensors(fields, Len(fields))) + p]

ItemLayout(fields, ex) ==
    ex[Len(ExTensors(fields, Len(fields))) + Len(ExIndexes(fields)) + 1]

\* what the loop body raises for one exclude item
item_raises(fields, ex) ==
    IF Len(ex) # Len(fields) THEN "SchemaError"
    ELSE IF FirstRaise(ItemDTypes(fields, ex)) # "none"
         THEN FirstRaise(ItemDTypes(fields, ex))
    ELSE IF \E p \in 1..Len(ExIndexes(fields)) :
                ItemRank(fields, ex, p).kind = "str"
         THEN "SchemaError"
    ELSE IF /\ HasLayout(fields)
            /\ ItemLayout(fields, ex).kind # "None"
            /\ ~(/\ ItemLayout(fields, ex).kind = "int"
                 /\ ItemLayout(fields, ex).n \in 0..(num_layouts(formats) - 1))
         THEN "AttributeError"
    ELSE IF /\ ~HasLayout(fields)
            /\ \A i \in 1..Len(ItemDTypes(fields, ex)) :
                   dtype_expr(ItemDTypes(fields, ex)[i]) # <<>>
         THEN "UnboundLocalError"
    ELSE "none"

\* the ranks dictionary of an item: a later occurrence of an index overrides
ItemRanks(fields, ex) ==
    LET idxs == ExIndexes(fields)
        given == { p \in 1..Len(idxs) : ItemRank(fields, ex, p).kind = "int" }
    IN  [idx \in { idxs[p][1] : p \in given } |->
            ItemRank(fields, ex,
                     CHOOSE p \in given :
                        /\ idxs[p][1] = idx
                        /\ \A p2 \in given : idxs[p2][1] = idx => p2 <= p).n]

\* the combinations one item adds, the layout narrowed to layout 0 when
\* the item leaves it open
ItemEntries_LayoutZero(fields, ex) ==
    { Record(<< <<"tensors", ExTensors(fields, Len(fields))>>,
                <<"dtypes", dtypes>>,
                <<"ranks", ItemRanks(fields, ex)>>,
                <<"layout", {0}>> >>) :
        dtypes \in Product([i \in 1..Len(ItemDTypes(fields, ex)) |->
                               dtype_expr(ItemDTypes(fields, ex)[i])]) }

\* the combinations one item adds: add_excluded(tensors, dtypes, ranks, layout)
\* for every dtypes of the product
ItemEntries(fields, ex) ==
    { Record(<< <<"tensors", ExTensors(fields, Len(fields))>>,
                <<"dtypes", dtypes>>,
                <<"ranks", ItemRanks(fields, ex)>>,
                <<"layout", IF ItemLayout(fields, ex).kind = "None" THEN {}
                            ELSE {ItemLayout(fields, ex).n}>> >>) :
        dtypes \in Product([i \in 1..Len(ItemDTypes(fields, ex)) |->
                               dtype_expr(ItemDTypes(fields, ex)[i])]) }

\* the number of leading items the loop completes
RECURSIVE Completed(_, _)
Completed(fields, exclude) ==
    IF exclude = <<>> \/ item_raises(fields, exclude[1]) # "none" THEN 0
    ELSE 1 + Completed(fields, Tail(exclude))

\* what exclude_dtypes raises
exclude_dtypes_raises(fields, exclude) ==
    IF \E n \in 1..Len(fields) : FieldKind(fields, n) = "SchemaError"
    THEN "SchemaError"
    ELSE IF Completed(fields, exclude) < Len(exclude)
         THEN item_raises(fields, exclude[Completed(fields, exclude) + 1])
    ELSE "none"

\* SchemaApi.exclude_dtypes(fields, *exclude)
exclude_dtypes(fields, exclude) ==
    /\ ret' = Call("exclude_dtypes", "", "", exclude_dtypes_raises(fields, exclude))
    /\ IF \E n \in 1..Len(fields) : FieldKind(fields, n) = "SchemaError"
       THEN UNCHANGED <<excluded, excl_log>>
       ELSE /\ excluded' = excluded \cup
                UNION { ItemEntries(fields, exclude[i]) :
                        i \in 1..Completed(fields, exclude) }
            /\ excl_log' = excl_log \o
                [i \in 1..Completed(fields, exclude) |-> <<fields, exclude[i]>>]
    /\ UNCHANGED <<rankReg, sigReg, compReg, dtype_valid, dtype_equiv, optReg>>

-----------------------------------------------------------------------------
(* Integer and option arguments, computed indices, index predicates *)

\* pr.ArgInt(arg_name, lo, hi) and pr.Options(arg_name, options)
ArgInt(lo, hi) ==
    Record(<< <<"kind", "int">>, <<"lo", lo>>, <<"hi", hi>>, <<"values", {}>> >>)

ArgOptions(values) ==
    Record(<< <<"kind", "option">>, <<"lo", {}>>, <<"hi", {}>>,
              <<"values", values>> >>)

\* SchemaApi.arg_int(arg_name, lo, hi)
arg_int(arg_name, lo, hi) ==
    /\ options' = Put(options, arg_name, ArgInt(lo, hi))
    /\ params' = Put(params, arg_name, "int")
    /\ ret' = Call("arg_int", "", "", "none")
    /\ UNCHANGED <<rankReg, arg_sigs, rank_cons, ret_sigs, compReg, dtypeReg,
                   formats, df_ret>>

\* SchemaApi.arg_option(arg_name, options)
arg_option(arg_name, values) ==
    /\ options' = Put(options, arg_name, ArgOptions(values))
    /\ params' = Put(params, arg_name, "option")
    /\ ret' = Call("arg_option", "", "", "none")
    /\ UNCHANGED <<rankReg, arg_sigs, rank_cons, ret_sigs, compReg, dtypeReg,
                   formats, df_ret>>

\* pr.IndexDimsConstraint(pred_name, status_func) with its index edges
IndexDimsConstraint(status_func, min_val, indices) ==
    Record(<< <<"status_func", status_func>>, <<"min_val", min_val>>,
              <<"indices", indices>> >>)

\* computed_index without the call of add_index_predicate
BoundsPredicate_None(comp_index, min_val) == <<>>

\* the predicate computed_index adds: comp_index >= min_val, flib.PredAbove
BoundsPredicate(comp_index, min_val) ==
    << IndexDimsConstraint("PredAbove", min_val, <<comp_index>>) >>

\* what computed_index raises
computed_index_raises(comp_index, input_indexes, extra_args) ==
    IF ~check_sig(input_indexes) THEN "SchemaError"
    ELSE IF \E i \in 1..Len(extra_args) : extra_args[i] \notin DOMAIN params
         THEN "KeyError"
    ELSE IF \E i \in 1..Len(extra_args) : params[extra_args[i]] = "unchecked"
         THEN "AttributeError"
    ELSE IF comp_index \in DOMAIN comp_indices THEN "SchemaError"
    ELSE IF comp_index \in input_indices THEN "SchemaError"
    ELSE "none"

\* pending_index_edges after computed_index recorded the inputs of its nodes
computed_index_edges(comp_index, input_indexes) ==
    Put(Put(pending_index_edges, node_name("TemplateFunc", comp_index),
            input_indexes),
        node_name("ComputedDims", comp_index), input_indexes)

\* the part of computed_index before the checks of comp_index: the template
\* and the edges of the two nodes are recorded
computed_index_nodes(comp_index, input_indexes, extra_args) ==
    /\ comp_dims_templates' =
          Put(comp_dims_templates, comp_index, node_name("TemplateFunc", comp_index))
    /\ pending_pred_edges' =
          Put(Put(pending_pred_edges, node_name("TemplateFunc", comp_index),
                  extra_args),
              node_name("ComputedDims", comp_index), extra_args)

\* the line of computed_index that raises, 0 when none does
computed_index_raised_at(comp_index, input_indexes, extra_args) ==
    IF ~check_sig(input_indexes) THEN 906
    ELSE IF \E i \in 1..Len(extra_args) : extra_args[i] \notin DOMAIN params
         THEN 912
    ELSE IF \E i \in 1..Len(extra_args) : params[extra_args[i]] = "unchecked"
         THEN 913
    ELSE IF comp_index \in DOMAIN comp_indices THEN 932
    ELSE IF comp_index \in input_indices THEN 936
    ELSE 0

\* SchemaApi.computed_index(comp_index, comp_func, tem_func, input_indexes,
\* min_val, *extra_args)
computed_index(comp_index, comp_func, input_indexes, min_val, extra_args) ==
    /\ ret' = Call("computed_index", comp_index, "",
                   computed_index_raises(comp_index, input_indexes, extra_args))
    /\ CASE computed_index_raised_at(comp_index, input_indexes, extra_args)
                \in {906, 912, 913} ->
                UNCHANGED compReg
         [] computed_index_raised_at(comp_index, input_indexes, extra_args) = 932 ->
                \* the nodes of comp_index exist: whether add_node takes a
                \* second node of a name is not in the sources
                /\ \/ UNCHANGED <<comp_dims_templates, pending_index_edges,
                                   pending_pred_edges>>
                   \/ /\ computed_index_nodes(comp_index, input_indexes, extra_args)
                      /\ pending_index_edges' =
                            computed_index_edges(comp_index, input_indexes)
                /\ UNCHANGED <<comp_indices, input_indices, index_preds>>
         [] computed_index_raised_at(comp_index, input_indexes, extra_args) = 936 ->
                /\ computed_index_nodes(comp_index, input_indexes, extra_args)
                /\ pending_index_edges' =
                      computed_index_edges(comp_index, input_indexes)
                /\ UNCHANGED <<comp_indices, input_indices, index_preds>>
         [] OTHER ->
            /\ computed_index_nodes(comp_index, input_indexes, extra_args)
            \* add_index_predicate records the edge of the bounds predicate
            /\ pending_index_edges' =
                  Put(computed_index_edges(comp_index, input_indexes),
                      node_name("IndexDimsConstraint",
                                comp_index \o " >= " \o ToString(min_val)),
                      <<comp_index>>)
            /\ input_indices' = input_indices \cup
                    (Range(input_indexes) \ DOMAIN comp_indices)
            /\ comp_indices' = Put(comp_indices, comp_index,
                    Record(<< <<"func", comp_func>>,
                              <<"inputs", input_indexes>>,
                              <<"extra", extra_args>>,
                              <<"min_val", min_val>> >>))
            /\ index_preds' = index_preds \o BoundsPredicate(comp_index, min_val)
    /\ UNCHANGED <<rankReg, sigReg, dtypeReg, optReg>>

\* the end of _init_schema: init_schema_func returned, _finalize runs
finalize ==
    /\ ~finalized
    /\ ret.raised = "none"
    /\ finalized' = TRUE
    /\ UNCHANGED <<rankReg, sigReg, compReg, dtypeReg, optReg, ret, pc,
                   enumVars, callVars, calls, diagnosis>>

\* one run of RankCandidates.all_index_ranks over the finished schema
enumerate ==
    /\ finalized
    /\ enum_status = "none"
    /\ enum_status' = all_index_ranks_status(index, mins, maxs, equiv)
    /\ yielded' = all_index_ranks(index, mins, maxs, equiv)
    /\ UNCHANGED <<rankReg, sigReg, compReg, dtypeReg, optReg, finalized,
                   ret, pc, gen_configs, callVars, calls, diagnosis>>

\* a run of all_index_ranks that pops the limits it has used
enumerate_again_Consuming ==
    /\ finalized
    /\ enum_status # "none"
    /\ enum_status' = all_index_ranks_status(index, EmptyMap, maxs, equiv)
    /\ yielded' = all_index_ranks(index, EmptyMap, maxs, equiv)
    /\ UNCHANGED <<rankReg, sigReg, compReg, dtypeReg, optReg, finalized,
                   ret, pc, gen_configs, callVars, calls, diagnosis>>

\* another run of RankCandidates.all_index_ranks over the finished schema
enumerate_again ==
    /\ finalized
    /\ enum_status # "none"
    /\ enum_status' = all_index_ranks_status(index, mins, maxs, equiv)
    /\ yielded' = all_index_ranks(index, mins, maxs, equiv)
    /\ UNCHANGED <<rankReg, sigReg, compReg, dtypeReg, optReg, finalized,
                   ret, pc, gen_configs, callVars, calls, diagnosis>>

-----------------------------------------------------------------------------
(* The rank constraints of src/schema/base.py, evaluated on the bound      *)
(* arguments.  args.shapes maps a tensor argument to its shape, args.ints  *)
(* an integer argument to its value, args.dtypes a tensor to its dtype.    *)

\* rankr of src/ops/gather_nd.py: indices_shape[-1]
rankr(indices_shape) == indices_shape[Len(indices_shape)]

\* the get_dims function of a DimRankConstraint, by name
GetDims(name, shape) == CASE name = "rankr" -> rankr(shape)

\* the signature of a shape argument under a layout
SigOf(arg, layout) == arg_sigs[arg][layout + 1]

\* the number of indices of a signature in place of the sum of their ranks
SigRank_Len(sig, rank_map) == Len(sig)

\* sum(rank_map[s] for s in sig)
SigRank(sig, rank_map) == SumSeq([i \in 1..Len(sig) |-> rank_map[sig[i]]])

\* observed_rank of the three constraint classes
observed_rank(con, args) ==
    CASE con.cls = "ShapeRankConstraint" -> Len(args.shapes[con.shape_arg])
      [] con.cls = "IntRankConstraint" -> args.ints[con.rank_arg]
      [] con.cls = "DimRankConstraint" ->
            GetDims(con.get_dims, args.shapes[con.shape_arg])

\* computed_rank read with the signature of the wrong constraint field
computed_rank_ShapeSigOnly(con, layout, rank_map) ==
    SigRank(IF con.shape_arg # "" THEN SigOf(con.shape_arg, layout)
            ELSE con.rank_sig, rank_map)

\* computed_rank of the three constraint classes
computed_rank(con, layout, rank_map) ==
    SigRank(IF con.cls = "ShapeRankConstraint" THEN SigOf(con.shape_arg, layout)
            ELSE con.rank_sig, rank_map)

\* rank_error that takes the dimensions read by a DimRankConstraint for no
\* evidence of error
rank_error_ShapesOnly(con, layout, args, rank_map) ==
    IF con.cls = "DimRankConstraint" THEN 0
    ELSE observed_rank(con, args) - computed_rank(con, layout, rank_map)

\* RankConstraint.rank_error
rank_error(con, layout, args, rank_map) ==
    observed_rank(con, args) - computed_rank(con, layout, rank_map)

-----------------------------------------------------------------------------
(* The suggestions of the rank constraints.  A suggestion is the text the  *)
(* method returns, read as the edit it names, the argument or index it     *)
(* names and the amount it gives; None is the empty set.                   *)

\* base.ShapeKind
ShapeKinds == {"DataTensor", "List", "Int", "Tensor", "Tensor2D"}

\* ShapeRankConstraint(shape_arg, arg_type), with the kind of the argument
ShapeRankConstraint_init(shape_arg, arg_type) ==
    Record(<< <<"cls", "ShapeRankConstraint">>, <<"shape_arg", shape_arg>>,
              <<"arg_type", arg_type>>, <<"arg_name", "">>,
              <<"rank_sig", <<>> >>, <<"rank_arg", "">>, <<"get_dims", "">>,
              <<"source_idx", "">> >>)

\* SliceRankConstraint(shape_arg, slice_index): the node is shape_arg.slice_index
SliceRankConstraint(shape_arg, slice_index) ==
    Record(<< <<"cls", "SliceRankConstraint">>,
              <<"shape_arg", shape_arg \o "." \o ToString(slice_index)>>,
              <<"arg_type", "">>, <<"arg_name", shape_arg>>,
              <<"rank_sig", <<>> >>, <<"rank_arg", "">>, <<"get_dims", "">>,
              <<"source_idx", "">> >>)

Text(edit, names, by) ==
    Record(<< <<"edit", edit>>, <<"names", names>>, <<"by", by>> >>)

Returned(text) == Record(<< <<"raised", "none">>, <<"text", text>> >>)

Raised(exc) == Record(<< <<"raised", exc>>, <<"text", {}>> >>)

\* SliceRankConstraint.suggestion: the message is built and not returned
SliceRankConstraint_suggestion(con, rank_err) == Returned({})

\* ShapeRankConstraint.suggestion: msg is bound in some branches only, and
\* the branch of a positive error of an Int kind reads self.shape
ShapeRankConstraint_suggestion(con, rank_err) ==
    IF rank_err = 0 THEN Returned({})
    ELSE IF rank_err < 0
         THEN CASE con.arg_type = "DataTensor" ->
                      Returned({Text("Add", con.shape_arg, -rank_err)})
                [] con.arg_type \in {"Tensor", "List"} ->
                      Returned({Text("Add", con.shape_arg, -rank_err)})
                [] con.arg_type = "Int" ->
                      Returned({Text("Increase", con.shape_arg, -rank_err)})
                [] OTHER -> Raised("UnboundLocalError")
         ELSE CASE con.arg_type = "Tensor" ->
                      Returned({Text("Remove", con.shape_arg, rank_err)})
                [] con.arg_type \in {"Tensor", "List"} ->
                      Returned({Text("Remove", con.shape_arg, rank_err)})
                [] con.arg_type = "Int" -> Raised("AttributeError")
                [] OTHER -> Raised("UnboundLocalError")

\* IntRankConstraint.suggestion: the text names self.shape_arg, which
\* __init__ set to None
IntRankConstraint_suggestion(con, rank_err) ==
    IF rank_err = 0 THEN Returned({})
    ELSE IF rank_err < 0
         THEN Returned({Text("Increase", con.shape_arg, -rank_err)})
         ELSE Returned({Text("Decrease", con.shape_arg, rank_err)})

\* DimRankConstraint.suggestion
DimRankConstraint_suggestion(con, rank_err) ==
    IF rank_err = 0 THEN Returned({})
    ELSE IF rank_err < 0
         THEN Returned({Text("Increase", con.source_idx, -rank_err)})
         ELSE Returned({Text("Decrease", con.source_idx, rank_err)})

\* con.suggestion(rank_err)
suggestion(con, rank_err) ==
    CASE con.cls = "SliceRankConstraint" ->
            SliceRankConstraint_suggestion(con, rank_err)
      [] con.cls = "ShapeRankConstraint" ->
            ShapeRankConstraint_suggestion(con, rank_err)
      [] con.cls = "IntRankConstraint" ->
            IntRankConstraint_suggestion(con, rank_err)
      [] con.cls = "DimRankConstraint" ->
            DimRankConstraint_suggestion(con, rank_err)

\* a call of con.suggestion(rank_err) for the constraint and the error
\* drawn at the start
call_suggestion ==
    /\ diagnosis.op = "none"
    /\ diagnosis.con # <<>>
    /\ diagnosis.con.cls \in {"SliceRankConstraint", "ShapeRankConstraint",
                               "IntRankConstraint", "DimRankConstraint"}
    /\ diagnosis' = Diagnosis("suggestion", diagnosis.con, diagnosis.input,
                              suggestion(diagnosis.con, diagnosis.input))
    /\ UNCHANGED <<rankReg, sigReg, compReg, dtypeReg, optReg, finalized, ret,
                   pc, enumVars, callVars, calls>>

-----------------------------------------------------------------------------
(* The rank error and the highlight map of a ShapeRankConstraint.  A shape *)
(* is a list of dimensions or an integer; None is the empty set.           *)

ListShape(dims) == Record(<< <<"kind", "list">>, <<"dims", dims>>, <<"n", 0>> >>)

IntShape(n) == Record(<< <<"kind", "int">>, <<"dims", <<>> >>, <<"n", n>> >>)

\* base.shape_rank(shape): the length of a list, None for an integer
shape_rank(shape) == IF shape.kind = "list" THEN {Len(shape.dims)} ELSE {}

\* RankConstraint.rank_error, from the observed and the computed rank
RankConstraint_rank_error(obs_rank, cmp_rank) ==
    IF obs_rank = {} THEN 0 ELSE Val(obs_rank) - cmp_rank

\* list(range(lo, hi))
PyRange(lo, hi) == { i \in lo..(hi - 1) : TRUE }

\* ShapeRankConstraint.highlight_map(sig_map, shape_map, rank_map), for the
\* signature and the shape of the argument: len(shape) raises for an integer
ShapeRankConstraint_highlight_map(sig, shape, rank_map) ==
    LET re == RankConstraint_rank_error(shape_rank(shape), SigRank(sig, rank_map))
        act_len == Len(shape.dims)
        cmp_len == act_len - re
    IN  IF shape.kind # "list"
        THEN Record(<< <<"raised", "TypeError">>, <<"inds", {}>> >>)
        ELSE Record(<< <<"raised", "none">>,
                       <<"inds", PyRange(Min(act_len, cmp_len),
                                         Max(act_len, cmp_len))>> >>)

\* the signature, the shape and the rank map a method of a constraint is
\* called with
Observation(sig, shape, rank_map) ==
    Record(<< <<"sig", sig>>, <<"shape", shape>>, <<"rank_map", rank_map>> >>)

\* a call of rank_error of the ShapeRankConstraint drawn at the start
call_rank_error ==
    /\ diagnosis.op = "none"
    /\ diagnosis.con # <<>>
    /\ diagnosis.con.cls = "ShapeRankConstraint"
    /\ diagnosis.input.shape.kind \in {"list", "int"}
    /\ diagnosis' =
          Diagnosis("rank_error", diagnosis.con, diagnosis.input,
                    RankConstraint_rank_error(
                        shape_rank(diagnosis.input.shape),
                        SigRank(diagnosis.input.sig, diagnosis.input.rank_map)))
    /\ UNCHANGED <<rankReg, sigReg, compReg, dtypeReg, optReg, finalized, ret,
                   pc, enumVars, callVars, calls>>

\* a call of highlight_map of the ShapeRankConstraint drawn at the start
call_highlight_map ==
    /\ diagnosis.op = "none"
    /\ diagnosis.con # <<>>
    /\ diagnosis.con.cls = "ShapeRankConstraint"
    /\ diagnosis.input.shape.kind \in {"list", "int"}
    /\ diagnosis' =
          Diagnosis("highlight_map", diagnosis.con, diagnosis.input,
                    ShapeRankConstraint_highlight_map(
                        diagnosis.input.sig, diagnosis.input.shape,
                        diagnosis.input.rank_map))
    /\ UNCHANGED <<rankReg, sigReg, compReg, dtypeReg, optReg, finalized, ret,
                   pc, enumVars, callVars, calls>>

-----------------------------------------------------------------------------
(* The range constraints of the rank enumeration.                          *)

\* SumRangeConstraint(op, sig, lo, hi), with op.avail_edits at the call
SumRangeConstraint_init(avail_edits, sig, lo, hi) ==
    Record(<< <<"cls", "SumRangeConstraint">>, <<"avail_edits", avail_edits>>,
              <<"sig", sig>>, <<"lo", lo>>, <<"hi", hi>> >>)

\* residual = sum(index_ranks.get(idx, 0) for idx in self.sig)
Residual(sig, index_ranks) ==
    SumSeq([i \in 1..Len(sig) |-> Get(index_ranks, sig[i], 0)])

\* SumRangeConstraint.__call__(**index_ranks): the pair (low, high)
SumRangeConstraint_call(con, index_ranks) ==
    << Max(0, con.lo - Residual(con.sig, index_ranks) - con.avail_edits),
       Max(0, con.hi - Residual(con.sig, index_ranks) + con.avail_edits) >>

\* a call of the range constraint drawn at the start, with the ranks drawn
call_SumRangeConstraint ==
    /\ diagnosis.op = "none"
    /\ diagnosis.con # <<>>
    /\ diagnosis.con.cls = "SumRangeConstraint"
    /\ diagnosis' = Diagnosis("SumRangeConstraint", diagnosis.con, diagnosis.input,
                              SumRangeConstraint_call(diagnosis.con, diagnosis.input))
    /\ UNCHANGED <<rankReg, sigReg, compReg, dtypeReg, optReg, finalized, ret,
                   pc, enumVars, callVars, calls>>

-----------------------------------------------------------------------------
(* The predicate graph: rank inference, index dimensions, dtypes.          *)

\* pr.Ranks: the enumerated rank maps that leave no rank error
ValidRankMaps(args, layout) ==
    { m \in Range(all_index_ranks(index, mins, maxs, equiv)) :
        \A i \in 1..Len(rank_cons) :
            rank_error(rank_cons[i], layout, args, m) = 0 }

\* the number of dimensions before position i of a signature
Offset(sig, i, rank_map) == SigRank(SubSeq(sig, 1, i - 1), rank_map)

\* the dimensions the shape arguments give to an index
Usages(idx, args, layout, rank_map) ==
    { SubSeq(args.shapes[arg],
             Offset(SigOf(arg, layout), i, rank_map) + 1,
             Offset(SigOf(arg, layout), i, rank_map) + rank_map[idx]) :
        <<arg, i>> \in { ai \in (DOMAIN arg_sigs) \X (1..Len(index)) :
            /\ ai[2] <= Len(SigOf(ai[1], layout))
            /\ SigOf(ai[1], layout)[ai[2]] = idx } }

\* pr.IndexDimsUsage: every index has the same dimensions wherever it is used
DimsConsistent(args, layout, rank_map) ==
    \A idx \in Range(index) :
        Cardinality(Usages(idx, args, layout, rank_map)) <= 1

\* the dimensions of an input index
InputDims(idx, args, layout, rank_map) ==
    CHOOSE d \in Usages(idx, args, layout, rank_map) : TRUE

\* the computation functions registered with computed_index, by name:
\* the input dimensions less an argument, and the input dimensions less one
CompFunc(name, dims, extra) ==
    CASE name = "minus" -> [i \in 1..Len(dims) |-> dims[i] - extra[1]]
      [] name = "pred" -> [i \in 1..Len(dims) |-> dims[i] - 1]

\* CompDimsGraph.__call__: the dimensions of every index, computed ones by
\* their function from the dimensions of their (first) input index
RECURSIVE IndexDims(_, _, _, _)
IndexDims(idx, args, layout, rank_map) ==
    IF idx \in DOMAIN comp_indices
    THEN LET c == comp_indices[idx] IN
         CompFunc(c.func, IndexDims(c.inputs[1], args, layout, rank_map),
                  [i \in 1..Len(c.extra) |-> args.ints[c.extra[i]]])
    ELSE InputDims(idx, args, layout, rank_map)

\* flib.PredAbove(min_val): every component is at least min_val
PredAbove(min_val, dims) == \A i \in 1..Len(dims) : dims[i] >= min_val

\* a pr.IndexDimsConstraint node applied to the dimensions of its index
PredHolds(pred, args, layout, rank_map) ==
    PredAbove(pred.min_val, IndexDims(pred.indices[1], args, layout, rank_map))

\* pr.ArgInt and pr.Options
ArgValueOk(arg, args) ==
    LET o == options[arg] IN
    IF o.kind = "int"
    THEN /\ o.lo # {} => args.ints[arg] >= Val(o.lo)
         /\ o.hi # {} => args.ints[arg] <= Val(o.hi)
    ELSE args.opts[arg] \in o.values

\* pr.Layout: the layout of the data format argument of the call
LayoutOf(args) ==
    IF formats.arg_name = "" THEN 0 ELSE formats.formats[args.format][1]

\* an excluded combination matches the dtypes, ranks and layout of a call
Matches(ex, dtypes, rank_map, layout) ==
    /\ \A i \in 1..Len(ex.tensors) : dtypes[ex.tensors[i]] = ex.dtypes[i]
    /\ \A idx \in DOMAIN ex.ranks : rank_map[idx] = ex.ranks[idx]
    /\ ex.layout # {} => layout \in ex.layout

\* pr.DTypes: every tensor has an allowed dtype, the dtype of its source
\* when equated
DTypesAllowed(dtypes) ==
    /\ \A t \in DOMAIN dtype_valid : dtypes[t] \in Range(dtype_valid[t])
    /\ \A t \in DOMAIN dtype_equiv : dtypes[t] = dtypes[dtype_equiv[t]]

\* fgraph.pred_graph_evaluate over the predicate graph: the first failure,
\* or Success
CheckStatus(args) ==
    LET layout == LayoutOf(args)
        maps == ValidRankMaps(args, layout)
        m == CHOOSE x \in maps : TRUE
    IN  IF \E a \in DOMAIN options : ~ArgValueOk(a, args)
        THEN "OptionNotInSetFailure"
        ELSE IF Cardinality(maps) # 1 THEN "RankInferenceFailure"
        ELSE IF ~DimsConsistent(args, layout, m) THEN "IndexUsageFailure"
        ELSE IF \E i \in 1..Len(index_preds) :
                    ~PredHolds(index_preds[i], args, layout, m)
             THEN "ComputedDimensionBelowMinimumFailure"
        ELSE IF ~DTypesAllowed(args.dtypes) THEN "DTypeNotAllowedFailure"
        ELSE IF \E ex \in excluded : Matches(ex, args.dtypes, m, layout)
             THEN "DTypeExcludedCombinationFailure"
        ELSE "Success"

\* pr.PredictedShape: the dimensions of the indices of each return signature
RECURSIVE SigDims(_, _, _, _)
SigDims(sig, args, layout, rank_map) ==
    IF sig = <<>> THEN <<>>
    ELSE IndexDims(sig[1], args, layout, rank_map)
            \o SigDims(Tail(sig), args, layout, rank_map)

PredictedShapes(args) ==
    LET layout == LayoutOf(args)
        m == CHOOSE x \in ValidRankMaps(args, layout) : TRUE
    IN  [i \in 1..Len(ret_sigs) |-> SigDims(ret_sigs[i][layout + 1], args, layout, m)]

\* the arguments of a schema on which no call was prepared
NoArguments ==
    Record(<< <<"shapes", EmptyMap>>, <<"ints", EmptyMap>>,
              <<"dtypes", EmptyMap>>, <<"opts", EmptyMap>>, <<"format", "">> >>)

\* the callers of the schema, and a caller that has no call under way
CallIds == {"A", "B"}

Caller(step, args, op_return, status, raised) ==
    Record(<< <<"step", step>>, <<"args", args>>, <<"op_return", op_return>>,
              <<"status", status>>, <<"raised", raised>> >>)

NoCalls == [c \in CallIds |-> Caller("idle", NoArguments, <<>>, "None", "none")]

\* a step of the one call of a schema that has a single caller
Alone(A) == A /\ UNCHANGED <<calls, diagnosis>>

\* _prepare_call that keeps the status of the call before
prepare_call_KeepsStatus(args) ==
    /\ finalized
    /\ arguments' = args
    /\ returns' = <<>>
    /\ predicted' = <<>>
    /\ UNCHANGED <<rankReg, sigReg, compReg, dtypeReg, optReg, finalized, ret,
                   pc, enumVars, input_status, framework_status>>

\* SchemaApi._prepare_call: bind the arguments, clear the status
prepare_call(args) ==
    /\ finalized
    /\ arguments' = args
    /\ returns' = <<>>
    /\ input_status' = "None"
    /\ framework_status' = "None"
    /\ predicted' = <<>>
    /\ UNCHANGED <<rankReg, sigReg, compReg, dtypeReg, optReg, finalized, ret,
                   pc, enumVars>>

\* check_args that stores a Success only
check_args_DropsError ==
    /\ finalized
    /\ arguments # NoArguments
    /\ input_status' = IF CheckStatus(arguments) = "Success" THEN "Success"
                       ELSE "None"
    /\ predicted' = IF CheckStatus(arguments) = "Success"
                    THEN PredictedShapes(arguments) ELSE <<>>
    /\ UNCHANGED <<rankReg, sigReg, compReg, dtypeReg, optReg, finalized, ret,
                   pc, enumVars, arguments, returns, framework_status>>

\* SchemaApi._check_args
check_args ==
    /\ finalized
    /\ arguments # NoArguments
    /\ input_status' = CheckStatus(arguments)
    /\ predicted' = IF CheckStatus(arguments) = "Success"
                    THEN PredictedShapes(arguments) ELSE <<>>
    /\ UNCHANGED <<rankReg, sigReg, compReg, dtypeReg, optReg, finalized, ret,
                   pc, enumVars, arguments, returns, framework_status>>

\* what an op returns: one tensor, or a list of tensors; a tensor is its shape
TensorV(shape) == <<"tensor", shape>>

ListV(shapes) == <<"list", shapes>>

\* _check_return: op_return = (op_return,) unless it is a list or a tuple
AsList(op_return) ==
    IF op_return[1] = "list" THEN op_return[2] ELSE <<op_return[2]>>

\* fgraph.pred_graph_evaluate over the return graph, the pr.GetReturnTensor
\* and pr.ValidReturnShape nodes of every declared return: _get_return
\* raises when the tensor is missing, the shapes are compared otherwise
ReturnError(rets, pred) ==
    \E i \in 1..Len(ret_sigs) : i > Len(rets) \/ rets[i] # pred[i]

\* _check_return without the test of input_status
check_return_Unconditional(op_return) ==
    /\ finalized
    /\ returns' = AsList(op_return)
    /\ ret' = Call("_check_return", "", "",
                   IF predicted # <<>> /\ ReturnError(AsList(op_return), predicted)
                   THEN "SchemaError" ELSE "none")
    /\ UNCHANGED <<rankReg, sigReg, compReg, dtypeReg, optReg, finalized, pc,
                   enumVars, arguments, input_status, predicted,
                   framework_status>>

\* SchemaApi._check_return(op_return)
check_return(op_return) ==
    /\ finalized
    /\ IF input_status # "Success"
       THEN /\ ret' = Call("_check_return", "", "", "none")
            /\ UNCHANGED returns
       ELSE /\ returns' = AsList(op_return)
            /\ ret' = Call("_check_return", "", "",
                           IF ReturnError(AsList(op_return), predicted)
                           THEN "SchemaError" ELSE "none")
    /\ UNCHANGED <<rankReg, sigReg, compReg, dtypeReg, optReg, finalized, pc,
                   enumVars, arguments, input_status, predicted,
                   framework_status>>

-----------------------------------------------------------------------------
(* The generative graph: fgraph.gen_graph_iterate over the nodes of        *)
(* _init_gen_graph.  A configuration carries its rank map, dtypes, layout, *)
(* option values, the arguments built from them and the status the         *)
(* generator expects (ge.StatusAggregator).                                *)

\* ge.Layout: the layouts of the schema
GenLayouts == 0..(num_layouts(formats) - 1)

\* ge.DTypesStatus: a valid dtype for every tensor of valid_dtypes, an
\* equated tensor takes the dtype of its source
GenDTypes ==
    { [t \in DOMAIN dtype_valid \cup DOMAIN dtype_equiv |->
          IF t \in DOMAIN dtype_valid THEN v[t] ELSE v[dtype_equiv[t]]] :
      v \in { w \in [DOMAIN dtype_valid ->
                        UNION { Range(dtype_valid[t]) : t \in DOMAIN dtype_valid }] :
                 \A t \in DOMAIN dtype_valid : w[t] \in Range(dtype_valid[t]) } }

\* ge.Options: one of the declared values for every option argument
OptionArgs == { a \in DOMAIN options : options[a].kind = "option" }

GenOpts ==
    { o \in [OptionArgs -> UNION { options[a].values : a \in OptionArgs }] :
         \A a \in OptionArgs : o[a] \in options[a].values }

\* the dimensions of an index of rank n: every index its own size
GenDims(idx, n) == [i \in 1..n |-> IndexOf(index, idx) + 1]

\* ge.ArgShapes: the shape of a signature under a rank map
RECURSIVE GenShape(_, _)
GenShape(sig, rank_map) ==
    IF sig = <<>> THEN <<>>
    ELSE GenDims(sig[1], rank_map[sig[1]]) \o GenShape(Tail(sig), rank_map)

\* ge.Int and ge.Rank: the lower bound of an integer argument (0 without
\* one), the rank of its signature for a rank argument
GenInts(rank_map) ==
    LET rank_args == { n \in 1..Len(rank_cons) :
                          rank_cons[n].cls = "IntRankConstraint" }
        int_args == { a \in DOMAIN options : options[a].kind = "int" }
    IN  [a \in int_args \cup { rank_cons[n].rank_arg : n \in rank_args } |->
            IF a \in int_args
            THEN (IF options[a].lo = {} THEN 0 ELSE Val(options[a].lo))
            ELSE SigRank(rank_cons[CHOOSE n \in rank_args :
                                      rank_cons[n].rank_arg = a].rank_sig,
                         rank_map)]

\* the arguments of a configuration
GenArgs(rank_map, dtypes, layout, opts) ==
    Record(<< <<"shapes", [t \in DOMAIN arg_sigs |->
                              GenShape(SigOf(t, layout), rank_map)]>>,
              <<"ints", GenInts(rank_map)>>,
              <<"dtypes", dtypes>>,
              <<"opts", opts>>,
              <<"format", IF formats.arg_name = "" THEN ""
                          ELSE CHOOSE df \in data_format(formats, layout, rank_map) :
                                  TRUE>> >>)

Config(rank_map, dtypes, layout, opts, args, expect) ==
    Record(<< <<"ranks", rank_map>>, <<"dtypes", dtypes>>, <<"layout", layout>>,
              <<"opts", opts>>, <<"args", args>>, <<"expect", expect>> >>)

\* the configurations expected to succeed: every rank map of the rank
\* enumeration with every layout that has a data format for it, every valid
\* dtype tuple and every option tuple, less the excluded combinations
ValidConfigs(rank_maps) ==
    { Config(c[1], c[2], c[3], c[4], GenArgs(c[1], c[2], c[3], c[4]), "Success") :
        c \in { x \in Range(rank_maps) \X GenDTypes \X GenLayouts \X GenOpts :
                   /\ data_format(formats, x[3], x[1]) # {}
                   /\ \A ex \in excluded : ~Matches(ex, x[2], x[1], x[3]) } }

\* a shape with one dimension more (delta = 1) or one less
Perturb(shape, delta) ==
    IF delta = 1 THEN Append(shape, 1) ELSE SubSeq(shape, 1, Len(shape) - 1)

\* the adjacent-rank configurations: the shape of one shape-bearing argument
\* of a valid configuration with a dimension added or removed
PerturbedConfigs(base) ==
    { Config(base.ranks, base.dtypes, base.layout, base.opts,
             Put(base.args, "shapes",
                 Put(base.args.shapes, t, Perturb(base.args.shapes[t], delta))),
             "RankInferenceFailure") :
        <<t, delta>> \in { td \in (DOMAIN base.args.shapes) \X {1, -1} :
                              td[2] = 1 \/ base.args.shapes[td[1]] # <<>> } }

\* list(fgraph.gen_graph_iterate(self.gen_graph.values()))
GenConfigs(rank_maps) ==
    LET valid == SetToSeq(ValidConfigs(rank_maps)) IN
    IF valid = <<>> THEN <<>>
    ELSE valid \o SetToSeq(PerturbedConfigs(valid[1]))

\* one iteration of the generative graph of the finished schema; the rank
\* enumeration runs inside it
generate ==
    /\ finalized
    /\ enum_status = "none"
    /\ enum_status' = all_index_ranks_status(index, mins, maxs, equiv)
    /\ yielded' = all_index_ranks(index, mins, maxs, equiv)
    /\ gen_configs' = IF all_index_ranks_status(index, mins, maxs, equiv) = "ok"
                      THEN GenConfigs(all_index_ranks(index, mins, maxs, equiv))
                      ELSE <<>>
    /\ UNCHANGED <<rankReg, sigReg, compReg, dtypeReg, optReg, finalized,
                   ret, pc, callVars, calls, diagnosis>>

\* another iteration of the generative graph of the finished schema
generate_again ==
    /\ finalized
    /\ gen_configs # <<>>
    /\ enum_status' = all_index_ranks_status(index, mins, maxs, equiv)
    /\ yielded' = all_index_ranks(index, mins, maxs, equiv)
    /\ gen_configs' = IF all_index_ranks_status(index, mins, maxs, equiv) = "ok"
                      THEN GenConfigs(all_index_ranks(index, mins, maxs, equiv))
                      ELSE <<>>
    /\ UNCHANGED <<rankReg, sigReg, compReg, dtypeReg, optReg, finalized,
                   ret, pc, callVars, calls, diagnosis>>

\* SchemaApi.__init__
Constructed ==
    /\ index = <<>>
    /\ mins = EmptyMap
    /\ maxs = EmptyMap
    /\ equiv = EmptyMap
    /\ registered = {}
    /\ params = EmptyMap
    /\ arg_sigs = EmptyMap
    /\ rank_cons = <<>>
    /\ ret_sigs = <<>>
    /\ comp_indices = EmptyMap
    /\ input_indices = {}
    /\ index_preds = <<>>
    /\ comp_dims_templates = EmptyMap
    /\ pending_index_edges = EmptyMap
    /\ pending_pred_edges = EmptyMap
    /\ dtype_valid = EmptyMap
    /\ dtype_equiv = EmptyMap
    /\ excluded = {}
    /\ excl_log = <<>>
    /\ formats = DefaultFormats
    /\ df_ret = NoLookup
    /\ options = EmptyMap
    /\ finalized = FALSE
    /\ ret = Call("init", "", "", "none")
    /\ pc = 0
    /\ enum_status = "none"
    /\ yielded = <<>>
    /\ gen_configs = <<>>
    /\ arguments = NoArguments
    /\ input_status = "None"
    /\ predicted = <<>>
    /\ returns = <<>>
    /\ framework_status = "None"
    /\ calls = NoCalls

Init == Constructed /\ diagnosis = NoDiagnosis

\* the model's bound on the number of limit declarations
Room(sig, lo, hi) ==
    (lo # {} \/ hi # {}) =>
        Cardinality(registered \cup {<<sig, lo, hi>>}) <= MaxRegistered

\* schema construction from the rank authoring calls, then rank enumeration
Next ==
    \/ \E idx \in Letters, lo \in OptMin, hi \in OptMax :
          Room(<<idx>>, lo, hi) /\ Author(add_index(idx, lo, hi)) /\ UNCHANGED pc
    \/ \E sig \in Sigs, lo \in OptMin, hi \in OptMax :
          Room(sig, lo, hi) /\ Author(limit_ranks(sig, lo, hi)) /\ UNCHANGED pc
    \/ \E t \in Letters, s \in Letters :
          Author(equate_ranks(t, s)) /\ UNCHANGED pc
    \/ finalize
    \/ enumerate

Spec == Init /\ [][Next]_vars

\* the same schemas, enumerated and iterated any number of times
NextEnum ==
    \/ Next
    \/ enumerate_again
    \/ generate
    \/ generate_again

SpecEnum == Init /\ [][NextEnum]_vars

-----------------------------------------------------------------------------
(* The gather_nd schema, src/ops/gather_nd.py: init_schema makes its calls *)
(* in order, pc counts them; calls of the finished schema follow.          *)

\* the shapes, batch_dims values and dtypes of the calls
IndicesShapes == {<<4, 5, 2>>, <<4, 5, 3>>, <<4, 2>>, <<5, 2>>, <<2>>}

ParamsShapes == {<<4, 10, 10, 3>>, <<4, 10, 10>>, <<4, 10>>, <<5, 10, 10, 3>>}

MaxBatchDims == 2

CallDTypes == {"int32", "int64", "float32"}

\* the bound arguments of tf.gather_nd(params, indices, batch_dims, name)
GatherArgs(params_shape, indices_shape, batch_dims, params_dtype, indices_dtype) ==
    Record(<<
        <<"shapes", Record(<< <<"params", params_shape>>,
                              <<"indices", indices_shape>> >>)>>,
        <<"ints", Record(<< <<"batch_dims", batch_dims>> >>)>>,
        <<"dtypes", Record(<< <<"params", params_dtype>>,
                              <<"indices", indices_dtype>> >>)>>,
        <<"opts", EmptyMap>>, <<"format", "">> >>)

\* the n-th call of init_schema is A
Step(n, A) == pc = n /\ Author(A) /\ pc' = n + 1

NextGather ==
    \/ Step(0, add_index("b", {}, {}))
    \/ Step(1, add_index("r", {1}, {}))
    \/ Step(2, add_index("w", {1}, {}))
    \/ Step(3, add_index("e", {}, {}))
    \/ Step(4, add_index("c", {1}, {1}))
    \/ Step(5, limit_ranks(<<"b", "r", "e">>, {}, {8}))
    \/ Step(6, limit_ranks(<<"b", "w", "c">>, {}, {8}))
    \/ Step(7, arg_tensor("indices", << <<"b", "w", "c">> >>))
    \/ Step(8, arg_tensor("params", << <<"b", "r", "e">> >>))
    \/ Step(9, arg_rank("batch_dims", <<"b">>))
    \/ Step(10, arg_unchecked("name"))
    \/ Step(11, valid_dtypes("indices",
                    <<StrV("int", {"32"}, {}), StrV("int", {"64"}, {})>>))
    \/ Step(12, valid_dtypes("params",
                    <<StrV("int", {"32"}, {}), StrV("float", {"32"}, {})>>))
    \/ Step(13, rank_dims_constraint("rankr", <<"r">>, "c", "indices"))
    \/ Step(14, return_tensor(<< <<"b", "w", "e">> >>))
    \/ pc = 15 /\ finalize
    \/ \E ps \in ParamsShapes, is \in IndicesShapes, bd \in 0..MaxBatchDims,
          pd \in CallDTypes, id \in CallDTypes :
          Alone(prepare_call(GatherArgs(ps, is, bd, pd, id)))
    \/ Alone(check_args)

SpecGather == Init /\ [][NextGather]_vars

-----------------------------------------------------------------------------
(* A schema with computed indices: tensor x of signature 'i', index o      *)
(* computed from i and index p computed from o, both of the rank of i.     *)

\* the largest min_val passed to computed_index
MaxMinVal == 1
\* the largest dimension of a shape, and the largest value of argument k
MaxDim == 3

\* the shapes of x: one to MaxLimit dimensions, each in 1..MaxDim
XShapes == UNION { [1..n -> 1..MaxDim] : n \in 1..MaxLimit }

\* the bound arguments of a call op(x, k)
CompArgs(x_shape, k, x_dtype) ==
    Record(<< <<"shapes", Record(<< <<"x", x_shape>> >>)>>,
              <<"ints", Record(<< <<"k", k>> >>)>>,
              <<"dtypes", Record(<< <<"x", x_dtype>> >>)>>,
              <<"opts", EmptyMap>>, <<"format", "">> >>)

NextComp ==
    \/ Step(0, add_index("i", {MinLimit}, {MaxLimit}))
    \/ Step(1, add_index("o", {}, {}))
    \/ Step(2, add_index("p", {}, {}))
    \/ Step(3, equate_ranks("o", "i"))
    \/ Step(4, equate_ranks("p", "i"))
    \/ Step(5, arg_tensor("x", << <<"i">> >>))
    \/ Step(6, arg_int("k", {0}, {}))
    \/ Step(7, valid_dtypes("x", <<StrV("float", {"32"}, {})>>))
    \/ \E min_val \in 0..MaxMinVal :
          \/ Step(8, computed_index("o", "minus", <<"i">>, min_val, <<"k">>))
          \/ Step(8, computed_index("o", "pred", <<"i">>, min_val, <<>>))
    \/ \E min_val \in 0..MaxMinVal :
          Step(9, computed_index("p", "pred", <<"o">>, min_val, <<>>))
    \/ Step(10, return_tensor(<< <<"p">> >>))
    \/ pc = 11 /\ finalize
    \/ \E x_shape \in XShapes, k \in 0..MaxDim :
          Alone(prepare_call(CompArgs(x_shape, k, "float32")))
    \/ Alone(check_args)

SpecComp == Init /\ [][NextComp]_vars

-----------------------------------------------------------------------------
(* A schema family with two indices, tensors x and y, an optional layout   *)
(* argument, an option argument and one exclude_dtypes call; the finished  *)
(* schema is iterated by the generative graph and its configurations are   *)
(* bound and checked.                                                      *)

\* the layouts passed to arg_layout: rank of 'a' => data format
FormatLayouts ==
    << [r \in 1..MaxLimit |-> IF r = 1 THEN "NCW"
                              ELSE IF r = 2 THEN "NCHW" ELSE "NCDHW"],
       [r \in 1..MaxLimit |-> IF r = 1 THEN "NWC"
                              ELSE IF r = 2 THEN "NHWC" ELSE "NDHWC"] >>

\* the signature lists of x: one signature, or one per layout
XSigs == { << <<"a", "b">> >>, << <<"a", "b">>, <<"b", "a">> >> }

\* the type lists of valid_dtypes
XTypeLists ==
    { << StrV("int", {"32"}, {}), StrV("float", {"32"}, {}) >>,
      << StrV("int", {"32"}, {"+"}) >> }

YTypeList == << StrV("float", {"32"}, {}), StrV("int", {"32"}, {}) >>

\* the exclude_dtypes calls: <<fields, exclude>>
ExCalls ==
    { << <<"x", ":layout">>, << <<StrV("int", {"32"}, {}), NoneV>> >> >>,
      << <<"x", "y", "a", ":layout">>,
         << <<StrV("int", {"32"}, {"+"}), StrV("float", {"32"}, {}),
              IntV(1), IntV(0)>> >> >>,
      << <<"x", "a">>, << <<StrV("int", {"32"}, {}), IntV(1)>> >> >>,
      << <<"a", ":layout">>, << <<IntV(2), NoneV>> >> >>,
      << <<"x", ":layout">>, << <<NoneV, IntV(0)>> >> >>,
      << <<"x", ":layout">>, << <<StrV("int", {"64"}, {}), IntV(1)>> >> >>,
      << <<"x", ":layout">>,
         << <<StrV("float", {"32"}, {}), NoneV>>,
            <<StrV("int", {"32"}, {}), IntV(0)>> >> >>,
      << <<"x", ":layout">>, << <<StrV("int", {"128"}, {"+"}), NoneV>> >> >>,
      << <<"x", ":layout", "a">>,
         << <<StrV("int", {"32"}, {}), IntV(0), IntV(1)>> >> >> }

NextGen ==
    \/ Step(0, add_index("a", {MinLimit}, {MaxLimit}))
    \/ \E lo \in {{}, {MinLimit}} : Step(1, add_index("b", lo, {MaxLimit}))
    \/ Step(2, limit_ranks(<<"a", "b">>, {}, {MaxLimit + 1}))
    \/ Step(3, arg_layout("data_format", FormatLayouts, "a"))
    \/ Step(3, arg_unchecked("name"))
    \/ \E sigs \in XSigs : Step(4, arg_tensor("x", sigs))
    \/ Step(5, arg_tensor("y", << <<"b">> >>))
    \/ \E type_list \in XTypeLists : Step(6, valid_dtypes("x", type_list))
    \/ Step(7, valid_dtypes("y", YTypeList))
    \/ Step(7, equate_dtypes("y", "x"))
    \/ Step(8, arg_option("padding", {"VALID", "SAME"}))
    \/ \E ec \in ExCalls : Step(9, exclude_dtypes(ec[1], ec[2]))
    \/ Step(10, return_tensor(<< <<"a", "b">> >>))
    \/ pc = 11 /\ finalize
    \/ generate
    \/ \E n \in 1..Len(gen_configs) : Alone(prepare_call(gen_configs[n].args))
    \/ Alone(check_args)

SpecGen == Init /\ [][NextGen]_vars

-----------------------------------------------------------------------------
(* The dtype expressions: tensor x and the unchecked argument name are     *)
(* declared, then valid_dtypes is called with one dtype expression, again  *)
(* and again until a call raises or the schema function returns.           *)

\* the dtype expressions passed: every family of the table, a family and a
\* name outside it, every size of the pattern, every suffix; and None
DExprs ==
    { StrV(pfx, q, rng) :
        pfx \in DOMAIN exprs \cup {"quint", "half"},
        q \in {{}, {"8"}, {"16"}, {"32"}, {"64"}, {"128"}},
        rng \in {{}, {"+"}, {"-"}} } \cup {NoneV}

NextDExpr ==
    \/ Step(0, add_index("a", {}, {}))
    \/ Step(1, arg_tensor("x", << <<"a">> >>))
    \/ Step(2, arg_unchecked("name"))
    \/ \E t \in {"x", "name"}, e \in DExprs :
          pc = 3 /\ Author(valid_dtypes(t, <<e>>)) /\ UNCHANGED pc
    \/ pc = 3 /\ finalize

SpecDExpr == Init /\ [][NextDExpr]_vars

-----------------------------------------------------------------------------
(* The dtype declarations: tensors x and y and the unchecked argument name *)
(* are declared, then valid_dtypes and equate_dtypes are called in any     *)
(* order on them and on the undeclared name z, until a call raises or the  *)
(* schema function returns.                                                *)

\* the names passed to valid_dtypes and equate_dtypes
DNames == {"x", "y", "name", "z"}

\* the type lists passed to valid_dtypes
DTypeLists ==
    { << StrV("int", {"32"}, {"+"}) >>,
      << StrV("float", {}, {}) >>,
      << StrV("int", {"32"}, {}), StrV("float", {"32"}, {}) >>,
      << StrV("float", {"8"}, {}) >>,
      << NoneV >> }

NextDTypes ==
    \/ Step(0, add_index("a", {}, {}))
    \/ Step(1, arg_tensor("x", << <<"a">> >>))
    \/ Step(2, arg_tensor("y", << <<"a">> >>))
    \/ Step(3, arg_unchecked("name"))
    \/ \E t \in DNames, type_list \in DTypeLists :
          pc = 4 /\ Author(valid_dtypes(t, type_list)) /\ UNCHANGED pc
    \/ \E t \in DNames, src \in DNames :
          pc = 4 /\ Author(equate_dtypes(t, src)) /\ UNCHANGED pc
    \/ pc = 4 /\ finalize

SpecDTypes == Init /\ [][NextDTypes]_vars

-----------------------------------------------------------------------------
(* The order of computed_index calls: indices i, o and p are registered,   *)
(* then computed_index is called for any of them with any inputs, until a  *)
(* call raises or the schema function returns.                             *)

\* the indices and the input signatures passed to computed_index
OrderIndexes == {"i", "o", "p"}

OrderInputs ==
    { <<a>> : a \in OrderIndexes } \cup
    { <<a, b>> : a \in OrderIndexes, b \in OrderIndexes }

NextOrder ==
    \/ Step(0, add_index("i", {MinLimit}, {MaxLimit}))
    \/ Step(1, add_index("o", {}, {}))
    \/ Step(2, add_index("p", {}, {}))
    \/ \E comp_index \in OrderIndexes, input_indexes \in OrderInputs :
          /\ pc = 3
          /\ Author(computed_index(comp_index, "pred", input_indexes, 0, <<>>))
          /\ UNCHANGED pc
    \/ pc = 3 /\ finalize

SpecOrder == Init /\ [][NextOrder]_vars

-----------------------------------------------------------------------------
(* A DataFormats object built from a dictionary of formats, and calls of   *)
(* its data_format.                                                        *)

\* the most items of a formats dictionary
MaxFormats == 3

\* the items a formats dictionary is made of: <<data_format, layout, rank>>,
\* with a format of any rank for each of the two layouts
FormatPool ==
    { <<"NCX", 0, {}>>, <<"NCW", 0, {1}>>, <<"NCHW", 0, {2}>>,
      <<"NXC", 1, {}>>, <<"NWC", 1, {1}>> }

\* the items of a dictionary: distinct keys, in any order
RECURSIVE FormatItems(_)
FormatItems(n) ==
    IF n = 0 THEN {<<>>}
    ELSE FormatItems(n - 1) \cup
         { Append(it, e) : it \in { x \in FormatItems(n - 1) : Len(x) = n - 1 },
                           e \in FormatPool } 

FormatDecls ==
    { it \in FormatItems(MaxFormats) :
         /\ it # <<>>
         /\ \A i, j \in 1..Len(it) : i # j => it[i][1] # it[j][1] }

NextFormats ==
    \/ \E fmts \in {{}} \cup { {it} : it \in FormatDecls }, rank_index \in {"", "a"} :
          /\ pc = 0
          /\ DataFormats_init("data_format", fmts, rank_index)
          /\ pc' = 1
    \/ \E layout \in 0..1, r \in 1..(MaxLimit + 1) :
          /\ pc = 1
          /\ call_data_format(layout, Record(<< <<"a", r>> >>))

SpecFormats == Init /\ [][NextFormats]_vars

-----------------------------------------------------------------------------
(* Calls of a schema op(x, k) with tensor x of signature 'i', an integer k *)
(* of at least 0 and a return tensor of signature 'o', o = i - k computed  *)
(* with a minimum of 1.                                                    *)

\* the shapes of x of a call, the last of a rank that i cannot have
CallShapes ==
    { <<1>>, <<MaxDim>>, <<MaxDim, 2>>, [n \in 1..(MaxLimit + 1) |-> 1] }

\* the arguments of the calls: k may be below its minimum, the dtype invalid
CallArgs ==
    { CompArgs(x_shape, k, dt) :
        x_shape \in CallShapes, k \in {-1, 0, MaxDim - 1},
        dt \in {"float32", "int32"} }

\* what the op of a call returns
OpReturns ==
    { TensorV(<<1>>), TensorV(<<MaxDim>>), TensorV(<<MaxDim, 2>>),
      ListV(<<>>), ListV(<< <<1>>, <<1>> >>), ListV(<< <<MaxDim>> >>) }

SchemaCalls ==
    \/ Step(0, add_index("i", {MinLimit}, {MaxLimit}))
    \/ Step(1, add_index("o", {}, {}))
    \/ Step(2, equate_ranks("o", "i"))
    \/ Step(3, arg_tensor("x", << <<"i">> >>))
    \/ Step(4, arg_int("k", {0}, {}))
    \/ Step(5, valid_dtypes("x", <<StrV("float", {"32"}, {})>>))
    \/ Step(6, computed_index("o", "minus", <<"i">>, 1, <<"k">>))
    \/ Step(7, return_tensor(<< <<"o">> >>))
    \/ pc = 8 /\ finalize

NextCall ==
    \/ SchemaCalls
    \/ \E args \in CallArgs : Alone(prepare_call(args))
    \/ Alone(check_args)
    \/ \E op_return \in OpReturns : Alone(check_return(op_return))

SpecCall == Init /\ [][NextCall]_vars

\* the wrapper of the op checks the arguments of every call it prepared
SpecCallLive == SpecCall /\ WF_vars(Alone(check_args))

-----------------------------------------------------------------------------
(* Two callers of the same schema: each makes one call, a call being the   *)
(* steps _prepare_call, _check_args, the framework op and _check_return on *)
(* the one SchemaApi object; the steps of the two calls interleave.        *)

\* caller c starts its call: _prepare_call(*args)
call_prepare(c, args) ==
    /\ calls[c].step = "idle"
    /\ prepare_call(args)
    /\ calls' = Put(calls, c, Caller("prepared", args, <<>>, "None", "none"))
    /\ UNCHANGED diagnosis

\* caller c runs _check_args and reads input_status
call_check_args(c) ==
    /\ calls[c].step = "prepared"
    /\ check_args
    /\ calls' = Put(calls, c, Caller("checked", calls[c].args, <<>>,
                                     input_status', "none"))
    /\ UNCHANGED diagnosis

\* caller c runs the framework op, which returns op_return, and stores the
\* outcome in framework_status
call_framework(c, op_return) ==
    /\ calls[c].step = "checked"
    /\ finalized
    /\ framework_status' = "Success"
    /\ calls' = Put(calls, c, Caller("returned", calls[c].args, op_return,
                                     calls[c].status, "none"))
    /\ UNCHANGED <<rankReg, sigReg, compReg, dtypeReg, optReg, finalized, ret,
                   pc, enumVars, arguments, input_status, predicted, returns,
                   diagnosis>>

\* caller c runs _check_return on what the op returned
call_check_return(c) ==
    /\ calls[c].step = "returned"
    /\ check_return(calls[c].op_return)
    /\ calls' = Put(calls, c, Caller("done", calls[c].args, calls[c].op_return,
                                     calls[c].status, ret'.raised))
    /\ UNCHANGED diagnosis

NextCalls ==
    \/ SchemaCalls
    \/ \E c \in CallIds :
          \/ \E args \in CallArgs : call_prepare(c, args)
          \/ call_check_args(c)
          \/ \E op_return \in OpReturns : call_framework(c, op_return)
          \/ call_check_return(c)

SpecCalls == Init /\ [][NextCalls]_vars

-----------------------------------------------------------------------------
(* The same two callers making their calls one after the other: a caller   *)
(* starts a call when no other call is under way, and a caller whose call  *)
(* is done may make another one.                                           *)

\* caller c returns from the wrapper and is ready for its next call
call_done(c) ==
    /\ calls[c].step = "done"
    /\ calls' = Put(calls, c, NoCalls[c])
    /\ UNCHANGED <<rankReg, sigReg, compReg, dtypeReg, optReg, finalized, ret,
                   pc, enumVars, callVars, diagnosis>>

NextRepeat ==
    \/ SchemaCalls
    \/ \E c \in CallIds :
          \/ \E args \in CallArgs :
                /\ \A d \in CallIds : calls[d].step \in {"idle", "done"}
                /\ call_prepare(c, args)
          \/ call_check_args(c)
          \/ \E op_return \in OpReturns : call_framework(c, op_return)
          \/ call_check_return(c)
          \/ call_done(c)

SpecRepeat == Init /\ [][NextRepeat]_vars

-----------------------------------------------------------------------------
(* Schemas with the one index 'a' whose next calls take a signature that   *)
(* may hold the letter 'z', which no add_index registered.                 *)

\* the number of calls after add_index
MaxSigCalls == 3

SigInputs == { <<"a">>, <<"z">>, <<"a", "z">> }

\* one more call of init_schema_func
Then(A) == pc \in 1..MaxSigCalls /\ Author(A) /\ pc' = pc + 1

NextSigs ==
    \/ Step(0, add_index("a", {}, {}))
    \/ \E sig \in SigInputs :
          \/ Then(limit_ranks(sig, {MinLimit}, {}))
          \/ Then(arg_tensor("x", <<sig>>))
          \/ Then(arg_rank("r", sig))
          \/ Then(return_tensor(<<sig>>))
          \/ Then(rank_dims_constraint("rankr", sig, sig[1], "x"))
          \/ Then(computed_index(sig[1], "pred", <<"a">>, 0, <<>>))
    \/ pc > 1 /\ finalize

SpecSigs == Init /\ [][NextSigs]_vars

-----------------------------------------------------------------------------
(* Calls of add_rank_limits on one RankCandidates object, with limits      *)
(* inside and outside the range between the two defaults.                  *)

\* the most calls of add_rank_limits
MaxLimitCalls == 3

LimitSigs == { <<"a">>, <<"a", "b">> }

LimitLows == { {}, {DefaultMin - 1}, {0}, {MinLimit} }

LimitHighs == { {}, {MaxLimit}, {MaxLimit + 1}, {DefaultMax + 1} }

NextLimits ==
    \E sig \in LimitSigs, lo \in LimitLows, hi \in LimitHighs :
        /\ pc < MaxLimitCalls
        /\ Author(add_rank_limits(sig, lo, hi))
        /\ pc' = pc + 1

SpecLimits == Init /\ [][NextLimits]_vars

-----------------------------------------------------------------------------
(* A call of a SumRangeConstraint for RANK(sig) in [lo, hi], with ranks    *)
(* given for none, one or two of the indices.                              *)

RangeSigs == { <<"a", "b">>, <<"a", "b", "c">> }

\* the ranks already assigned: to no index, to a, or to a and b
AssignedRanks ==
    UNION { [S -> 0..MaxLimit] : S \in { {}, {"a"}, {"a", "b"} } }

RangeCons ==
    { SumRangeConstraint_init(e, sig, lo, hi) :
        e \in {0, 1}, sig \in RangeSigs, lo \in 0..RankCap, hi \in 0..RankCap }

InitSumRange ==
    /\ Constructed
    /\ diagnosis \in { Diagnosis("none", con, index_ranks, <<>>) :
                          con \in RangeCons, index_ranks \in AssignedRanks }

NextSumRange == call_SumRangeConstraint

SpecSumRange == InitSumRange /\ [][NextSumRange]_vars

-----------------------------------------------------------------------------
(* The rank error and the highlight map of the ShapeRankConstraint of an   *)
(* argument, for shapes that are lists of up to RankCap dimensions or      *)
(* integers, and candidate ranks up to MaxLimit.                           *)

ObservedSigs == { <<"a">>, <<"a", "b">> }

ObservedShapes ==
    { ListShape([i \in 1..n |-> 1]) : n \in 0..RankCap } \cup
    { IntShape(n) : n \in 1..MaxLimit }

Observations ==
    { Observation(sig, shape, rank_map) :
        sig \in ObservedSigs, shape \in ObservedShapes,
        rank_map \in [{"a", "b"} -> 0..MaxLimit] }

InitHighlight ==
    /\ Constructed
    /\ diagnosis \in
          { Diagnosis("none",
                      ShapeRankConstraint_init("x", IF o.shape.kind = "int"
                                                    THEN "Int" ELSE "List"),
                      o, <<>>) : o \in Observations }

NextHighlight == call_rank_error \/ call_highlight_map

SpecHighlight == InitHighlight /\ [][NextHighlight]_vars

-----------------------------------------------------------------------------
(* The suggestion of a rank constraint of every kind, for every rank error *)
(* up to MaxRankError on either side.                                      *)

\* the largest rank error
MaxRankError == 3

RankErrors == (0 - MaxRankError)..MaxRankError

\* the names of the constrained arguments
SuggestArgs == {"x", "y"}

SuggestCons ==
    { ShapeRankConstraint_init(a, k) : a \in SuggestArgs, k \in ShapeKinds } \cup
    { SliceRankConstraint(a, 0) : a \in SuggestArgs } \cup
    { IntRankConstraint(a, <<"i">>) : a \in SuggestArgs } \cup
    { DimRankConstraint(<<"i">>, a, "rankr", "i") : a \in SuggestArgs }

InitSuggest ==
    /\ Constructed
    /\ diagnosis \in { Diagnosis("none", con, rank_err, <<>>) :
                          con \in SuggestCons, rank_err \in RankErrors }

NextSuggest == call_suggestion

SpecSuggest == InitSuggest /\ [][NextSuggest]_vars

-----------------------------------------------------------------------------
(* Properties of rank authoring and rank enumeration *)

YieldedSet == { yielded[n] : n \in 1..Len(yielded) }

\* sum(rank_map[s] for s in sig)
RankOf(rank_map, sig) == SumSeq([i \in 1..Len(sig) |-> rank_map[sig[i]]])

WithinLimits(rank_map, sig, lo, hi) ==
    /\ lo # {} => Val(lo) <= RankOf(rank_map, sig)
    /\ hi # {} => RankOf(rank_map, sig) <= Val(hi)

\* C1: every rank map yielded by all_index_ranks keeps the summed rank of
\* every signature within every [lo, hi] registered for it by limit_ranks
\* or by add_index.
C1_YieldedRanksWithinLimits ==
    \A m \in YieldedSet : \A r \in registered :
        WithinLimits(m, r[1], r[2], r[3])

\* a two-index signature carries both limits, and the enumeration yielded
\* some rank tuples and pruned others
C1_Witness ==
    /\ enum_status = "ok"
    /\ Len(yielded) >= 2
    /\ Len(yielded) < (RankCap + 1) * (RankCap + 1)
    /\ \E r \in registered : Len(r[1]) = 2 /\ r[2] # {} /\ r[3] # {}

\* the rank maps over all registered indices, each rank within the cap, in
\* which an equated index has the rank of its source and every registered
\* limit holds
LegalRankMaps ==
    { m \in [Range(index) -> 0..RankCap] :
        /\ \A t \in DOMAIN equiv : m[t] = m[equiv[t]]
        /\ \A r \in registered : WithinLimits(m, r[1], r[2], r[3]) }

\* C2: the enumeration is exhaustive and duplicate-free: once
\* all_index_ranks has run, the rank maps it yielded are exactly the legal
\* ones, each yielded once.
C2_EnumerationExhaustive ==
    enum_status # "none" =>
        /\ YieldedSet = LegalRankMaps
        /\ \A i, j \in 1..Len(yielded) : yielded[i] = yielded[j] => i = j

\* C2 where all_index_ranks raised nothing
C2_ExhaustiveWhenNoRaise ==
    enum_status = "ok" =>
        /\ YieldedSet = LegalRankMaps
        /\ \A i, j \in 1..Len(yielded) : yielded[i] = yielded[j] => i = j

\* C3: in every yielded rank map each equated index is present and has the
\* rank of its source.
C3_EquatedRankCopiesSource ==
    \A m \in YieldedSet : \A t \in DOMAIN equiv :
        t \in DOMAIN m /\ m[t] = m[equiv[t]]

\* an enumeration with an equated index that yielded a positive rank for it
C3_Witness ==
    /\ enum_status = "ok"
    /\ Len(yielded) >= 2
    /\ \E t \in DOMAIN equiv : \E m \in YieldedSet : m[t] >= 1

\* C4: equate_ranks(target, source) raises SchemaError and changes neither
\* the equivalence map nor the rank limits when target is not registered,
\* target has rank bounds, target is already equated or source has no rank
\* bounds; otherwise it records target -> source.
C4_EquateRanksContract ==
    [][(ret' # ret /\ ret'.op = "equate_ranks") =>
          LET t == ret'.target
              s == ret'.source
              limited(i) == <<i>> \in DOMAIN mins \cup DOMAIN maxs
              bad == \/ t \notin Range(index)
                     \/ limited(t)
                     \/ t \in DOMAIN equiv
                     \/ ~limited(s)
          IN  /\ mins' = mins /\ maxs' = maxs
              /\ IF bad
                 THEN ret'.raised = "SchemaError" /\ equiv' = equiv
                 ELSE ret'.raised = "none" /\ equiv' = Put(equiv, t, s)]_vars

\* equate_ranks rejected a registered, unbounded target with a bounded
\* source because the target was already equated
C4_Witness ==
    /\ ret.op = "equate_ranks"
    /\ ret.raised = "SchemaError"
    /\ ret.target \in Range(index)
    /\ ret.target \in DOMAIN equiv
    /\ ~index_limited(ret.target)
    /\ index_limited(ret.source)
    /\ equiv[ret.target] # ret.source

\* C5: after accepted authoring calls no index is both equated and a
\* carrier of its own rank bounds.
C5_EquatedIndexCarriesNoBounds ==
    ret.raised = "none" => \A t \in DOMAIN equiv : ~index_limited(t)

-----------------------------------------------------------------------------
(* Properties of the gather_nd schema *)

\* the call of scenario A
ScenarioA ==
    /\ arguments.shapes = Record(<< <<"indices", <<4, 5, 2>> >>,
                                     <<"params", <<4, 10, 10, 3>> >> >>)
    /\ arguments.ints = Record(<< <<"batch_dims", 1>> >>)

\* C10: in the gather_nd schema the call indices.shape = [4,5,2],
\* params.shape = [4,10,10,3], batch_dims = 1 has exactly one rank solution,
\* rank(b) = 1, rank(w) = 1, rank(c) = 1, rank(r) = 2, rank(e) = 1, and,
\* its dtypes being allowed, it is a Success with predicted output shape
\* [4,5,3].
C10_GatherScenarioA ==
    (finalized /\ arguments # NoArguments /\ ScenarioA /\ input_status # "None") =>
        /\ ValidRankMaps(arguments, 0) =
              { Record(<< <<"b", 1>>, <<"w", 1>>, <<"c", 1>>, <<"r", 2>>,
                          <<"e", 1>> >>) }
        /\ DTypesAllowed(arguments.dtypes) =>
              /\ input_status = "Success"
              /\ predicted = << <<4, 5, 3>> >>

C10_Witness ==
    /\ finalized /\ arguments # NoArguments /\ ScenarioA
    /\ input_status = "Success"
    /\ predicted = << <<4, 5, 3>> >>

\* the call of scenario B
ScenarioB ==
    /\ arguments.shapes["indices"] = <<4, 5, 3>>
    /\ Len(arguments.shapes["params"]) = 3
    /\ arguments.ints = Record(<< <<"batch_dims", 1>> >>)

\* C11: in the gather_nd schema the call indices.shape = [4,5,3], params of
\* rank 3, batch_dims = 1 has no rank assignment without rank error, and its
\* status is the rank-inference failure, whatever its dtypes; no return
\* shape is predicted.
C11_GatherScenarioB ==
    (finalized /\ arguments # NoArguments /\ ScenarioB /\ input_status # "None") =>
        /\ ValidRankMaps(arguments, 0) = {}
        /\ input_status = "RankInferenceFailure"
        /\ predicted = <<>>

C11_Witness ==
    /\ finalized /\ arguments # NoArguments /\ ScenarioB
    /\ arguments.shapes["params"] = <<4, 10, 10>>
    /\ DTypesAllowed(arguments.dtypes)
    /\ input_status = "RankInferenceFailure"

-----------------------------------------------------------------------------
(* Properties of computed indices *)

\* the rank map and the layout a successful call resolved
ResolvedRanks == CHOOSE m \in ValidRankMaps(arguments, LayoutOf(arguments)) : TRUE

\* some component of the computed dimensions of idx is below its min_val
BelowMin(idx) ==
    LET dims == IndexDims(idx, arguments, LayoutOf(arguments), ResolvedRanks)
    IN  \E n \in 1..Len(dims) : dims[n] < comp_indices[idx].min_val

\* C9: every index registered with computed_index carries the predicate
\* 'idx >= min_val' (PredAbove on the index), and a call in which a
\* component of a computed index is below its min_val does not end with
\* status Success.
C9_ComputedIndexBelowMinNeverSuccess ==
    /\ \A idx \in DOMAIN comp_indices :
          \E n \in 1..Len(index_preds) :
              /\ index_preds[n].indices = <<idx>>
              /\ index_preds[n].status_func = "PredAbove"
              /\ index_preds[n].min_val = comp_indices[idx].min_val
    /\ input_status = "Success" =>
          \A idx \in DOMAIN comp_indices : ~BelowMin(idx)

C9_Witness ==
    /\ finalized
    /\ input_status = "ComputedDimensionBelowMinimumFailure"
    /\ \E idx \in DOMAIN comp_indices : BelowMin(idx)

-----------------------------------------------------------------------------
(* Properties of the generative graph *)

\* the positions of the configurations the generator expects to succeed
ValidGen == { n \in 1..Len(gen_configs) : gen_configs[n].expect = "Success" }

\* the configurations whose arguments are the bound ones
Bound == { n \in 1..Len(gen_configs) : gen_configs[n].args = arguments }

Cat(g) == <<g.ranks, g.dtypes, g.layout, g.opts>>

\* the legal dtype tuples: each tensor a dtype of its valid list, an equated
\* tensor any dtype of its source (Tied = FALSE) or the dtype of its source
LegalDTypes(Tied) ==
    LET src(t) == IF t \in DOMAIN dtype_valid THEN t ELSE dtype_equiv[t]
        names == DOMAIN dtype_valid \cup DOMAIN dtype_equiv
    IN  { d \in [names -> UNION { Range(dtype_valid[t]) : t \in DOMAIN dtype_valid }] :
            /\ \A t \in names : d[t] \in Range(dtype_valid[src(t)])
            /\ Tied => \A t \in DOMAIN dtype_equiv : d[t] = d[dtype_equiv[t]] }

\* the layouts that have a data format for the rank of the rank index
LegalLayouts(rank_map) ==
    { formats.formats[df][1] : df \in
        { f \in DOMAIN formats.formats :
             \/ formats.rank_index = ""
             \/ formats.formats[f][2] = {}
             \/ formats.formats[f][2] = {rank_map[formats.rank_index]} } }

LegalOpts ==
    { o \in [{ a \in DOMAIN options : options[a].kind = "option" } ->
                UNION { options[a].values : a \in DOMAIN options }] :
         \A a \in DOMAIN o : o[a] \in options[a].values }

\* the cross-product of the legal value sets
CrossProduct(Tied) ==
    { c \in YieldedSet \X LegalDTypes(Tied)
                \X { formats.formats[df][1] : df \in DOMAIN formats.formats }
                \X LegalOpts :
         c[3] \in LegalLayouts(c[1]) }

\* a registered exclusion covers a combination: its dtypes and ranks are
\* those of the combination, its layout is open or that of the combination
Covers(ex, c) ==
    /\ \A i \in 1..Len(ex.tensors) : c[2][ex.tensors[i]] = ex.dtypes[i]
    /\ \A idx \in DOMAIN ex.ranks : c[1][idx] = ex.ranks[idx]
    /\ ex.layout = {} \/ c[3] \in ex.layout

Denotes(v) ==
    { v.pfx \o sz : sz \in
        { s \in Range(exprs[v.pfx]) :
             \/ v.q = {}
             \/ v.rng = {} /\ s = Val(v.q)
             \/ v.rng = {"+"} /\ IntOf(s) >= IntOf(Val(v.q))
             \/ v.rng = {"-"} /\ IntOf(s) <= IntOf(Val(v.q)) } }

\* the value v given for field f of an exclude item admits configuration g
FieldAdmits(f, v, g) ==
    \/ v.kind = "None"
    \/ f = ":layout" /\ f \notin DOMAIN arg_sigs /\ g.layout = v.n
    \/ f \in DOMAIN arg_sigs /\ v.kind = "str" /\ g.dtypes[f] \in Denotes(v)
    \/ f \in Range(index) /\ f \notin DOMAIN arg_sigs /\ g.ranks[f] = v.n

\* the fields name tensors first, then indices, then the layout
TensorsIndexesLayout(fields) ==
    LET rank(f) == IF f \in DOMAIN arg_sigs THEN 1
                   ELSE IF f \in Range(index) THEN 2 ELSE 3
    IN  \A i, j \in 1..Len(fields) : i < j => rank(fields[i]) <= rank(fields[j])

\* C8: dtype exclusion precedence: no valid configuration of the generative
\* enumeration matches a combination exclude_dtypes registered, an open
\* layout or rank matching any value; and none matches an exclude item given
\* with the fields in the order tensors, indices, layout.
C8_NoValidConfigExcluded ==
    /\ \A ex \in excluded : \A n \in ValidGen : ~Covers(ex, Cat(gen_configs[n]))
    /\ \A k \in 1..Len(excl_log) : \A n \in ValidGen :
          TensorsIndexesLayout(excl_log[k][1]) =>
              \E p \in 1..Len(excl_log[k][1]) :
                  ~FieldAdmits(excl_log[k][1][p], excl_log[k][2][p], gen_configs[n])

\* an enumeration with valid configurations left, where an exclude item
\* with an open layout covers a combination whose fields are all legal
C8_Witness ==
    /\ enum_status = "ok"
    /\ ValidGen # {}
    /\ \E k \in 1..Len(excl_log) :
          /\ \E p \in 1..Len(excl_log[k][1]) :
                excl_log[k][1][p] = ":layout" /\ excl_log[k][2][p].kind = "None"
          /\ \E c \in CrossProduct(TRUE) :
                \E ex \in ItemEntries(excl_log[k][1], excl_log[k][2]) : Covers(ex, c)

-----------------------------------------------------------------------------
(* Properties of the dtype declarations *)

\* the dtypes an expression is documented to stand for: the named dtype when
\* a size and no suffix is given, otherwise by family, size and suffix
Resolves(e) ==
    IF e.q # {} /\ e.rng = {} THEN { e.pfx \o Val(e.q) } ELSE Denotes(e)

\* C12: dtype expression resolution: an accepted valid_dtypes(x, [e])
\* registers for x every width of a family given alone, exactly the dtype of
\* a family with a width, and the width with all larger ('+') or smaller
\* ('-') widths of the family; 'float' gives float16, float32, float64 and
\* 'int32+' gives int32, int64.
C12_DTypeExprResolution ==
    [][\A e \in DExprs :
          (/\ ret'.op = "valid_dtypes" /\ ret'.raised = "none"
           /\ valid_dtypes("x", <<e>>)) =>
              /\ Range(dtype_valid'["x"]) = Resolves(e)
              /\ e = StrV("float", {}, {}) =>
                    dtype_valid'["x"] = <<"float16", "float32", "float64">>
              /\ e = StrV("int", {"32"}, {"+"}) =>
                    dtype_valid'["x"] = <<"int32", "int64">>]_vars

\* 'int32+' was accepted for tensor x
C12_Witness ==
    /\ ret.op = "valid_dtypes" /\ ret.raised = "none"
    /\ "x" \in DOMAIN dtype_valid
    /\ dtype_valid["x"] = <<"int32", "int64">>

\* C13: valid_dtypes applies at most once per tensor: a call for a tensor
\* that has valid dtypes raises and leaves the registered dtypes as they
\* were; a call naming a parameter that is not a data tensor raises and
\* registers nothing.
C13_ValidDTypesOnce ==
    [][\A t \in DNames, type_list \in DTypeLists :
          (/\ ret'.op = "valid_dtypes" /\ ret'.target = t
           /\ valid_dtypes(t, type_list)) =>
              /\ t \in DOMAIN dtype_valid =>
                    ret'.raised # "none" /\ dtype_valid' = dtype_valid
              /\ ~is_data_tensor(t) =>
                    /\ ret'.raised # "none"
                    /\ dtype_valid' = dtype_valid
                    /\ dtype_equiv' = dtype_equiv]_vars

\* a second valid_dtypes call for a tensor was made and raised
C13_Witness ==
    /\ ret.op = "valid_dtypes" /\ ret.raised # "none"
    /\ ret.target \in DOMAIN dtype_valid
    /\ dtype_valid[ret.target] = <<"int32", "int64">>

\* C14: equate_dtypes(target, source) is accepted only when source has
\* valid dtypes registered and target has neither valid dtypes nor an
\* equated source; in every other case it raises and registers no
\* equivalence.
C14_EquateDTypesContract ==
    [][\A t \in DNames, src \in DNames :
          (/\ ret'.op = "equate_dtypes" /\ ret'.target = t /\ ret'.source = src
           /\ equate_dtypes(t, src)) =>
              IF /\ src \in DOMAIN dtype_valid
                 /\ t \notin DOMAIN dtype_valid \cup DOMAIN dtype_equiv
              THEN ret'.raised = "none"
              ELSE ret'.raised # "none" /\ dtype_equiv' = dtype_equiv]_vars

\* C15: schema construction succeeds only if every declared data tensor
\* has exactly one dtype resolution path: a finished schema has, for every
\* data tensor, either valid dtypes or an equated source, and not both.
C15_FinishedSchemaResolvesDTypes ==
    finalized =>
        \A t \in DOMAIN params :
            is_data_tensor(t) =>
                (t \in DOMAIN dtype_valid) # (t \in DOMAIN dtype_equiv)

-----------------------------------------------------------------------------
(* Properties of the order of computed_index calls *)

\* index b is reached from index a in at most n steps of "is computed from"
RECURSIVE Reaches(_, _, _, _)
Reaches(ci, a, b, n) ==
    /\ n > 0
    /\ a \in DOMAIN ci
    /\ \/ b \in Range(ci[a].inputs)
       \/ \E m \in Range(ci[a].inputs) : Reaches(ci, m, b, n - 1)

\* no computed index is computed, directly or indirectly, from itself
Acyclic(ci) ==
    \A c \in DOMAIN ci : ~Reaches(ci, c, c, Cardinality(DOMAIN ci))

\* a computed_index call for an index that is already computed, or already
\* an input of a computed index, raises SchemaError and registers nothing
OutOfOrderRejected ==
    \A c \in OrderIndexes, input_indexes \in OrderInputs :
        (/\ ret'.op = "computed_index" /\ ret'.target = c
         /\ computed_index(c, "pred", input_indexes, 0, <<>>)
         /\ c \in DOMAIN comp_indices \cup input_indices) =>
            /\ ret'.raised = "SchemaError"
            /\ comp_indices' = comp_indices
            /\ input_indices' = input_indices

\* C16: computed_index calls come in dependency order: a call for an index
\* that is already computed or already used as an input raises SchemaError,
\* and after every accepted call the dependency relation of the computed
\* indices is acyclic.
C16_ComputedIndexOrder ==
    [][OutOfOrderRejected /\ Acyclic(comp_indices')]_vars

\* C16, the rejection of out-of-order calls alone
C16_OutOfOrderRejected == [][OutOfOrderRejected]_vars

-----------------------------------------------------------------------------
(* Properties of DataFormats.data_format *)

\* the format has the layout of the call and no required rank, or the rank
\* the rank index has
FitsRank(df) ==
    /\ formats.formats[df][1] = df_ret.layout
    /\ \/ formats.formats[df][2] = {}
       \/ /\ formats.rank_index # ""
          /\ formats.formats[df][2] = {df_ret.ranks[formats.rank_index]}

\* the same, the required rank being left out of the comparison when the
\* object has no rank index
Fits(df) == FitsRank(df) \/ (formats.rank_index = "" /\ formats.formats[df][1] = df_ret.layout)

\* C17: data_format returns the unique format name whose layout code is the
\* layout and whose required rank is unset or the rank of the rank index, and
\* returns no value when no declared format is such
C17_UniqueFormat ==
    df_ret # NoLookup =>
        /\ \A df \in df_ret.value :
              /\ FitsRank(df)
              /\ \A o \in DOMAIN formats.formats : FitsRank(o) => o = df
        /\ df_ret.value = {} <=> ~\E df \in DOMAIN formats.formats : FitsRank(df)

\* C17, amended: data_format returns the first format name, in the order of
\* the formats dictionary, whose layout code is the layout and whose required
\* rank is unset or the rank of the rank index (any required rank when there
\* is no rank index), and returns None when no declared format is such
C17_FirstMatchingFormat ==
    df_ret # NoLookup =>
        /\ \A df \in df_ret.value :
              \E n \in 1..Len(formats.order) :
                  /\ formats.order[n] = df
                  /\ Fits(df)
                  /\ \A k \in 1..(n - 1) : ~Fits(formats.order[k])
        /\ Cardinality(df_ret.value) <= 1
        /\ df_ret.value = {} <=> ~\E df \in DOMAIN formats.formats : Fits(df)

\* a call that two declared formats fit, which returned the first of them
C17_Witness ==
    /\ df_ret # NoLookup
    /\ formats.rank_index = "a"
    /\ \E n \in 1..Len(formats.order), k \in 1..Len(formats.order) :
          /\ n < k
          /\ Fits(formats.order[n]) /\ Fits(formats.order[k])
          /\ df_ret.value = {formats.order[n]}

-----------------------------------------------------------------------------
(* Properties of the checks of a call *)

\* the typed failures, in the order the predicate nodes are evaluated
FailureOrder ==
    << "OptionNotInSetFailure", "RankInferenceFailure", "IndexUsageFailure",
       "ComputedDimensionBelowMinimumFailure", "DTypeNotAllowedFailure",
       "DTypeExcludedCombinationFailure" >>

\* the n-th predicate node reports an error on the arguments; the nodes after
\* the rank inference are evaluated on the one rank map it found
Reports(n, args) ==
    LET layout == LayoutOf(args)
        m == CHOOSE x \in ValidRankMaps(args, layout) : TRUE
    IN  CASE n = 1 -> \E a \in DOMAIN options : ~ArgValueOk(a, args)
          [] n = 2 -> Cardinality(ValidRankMaps(args, layout)) # 1
          [] n = 3 -> ~DimsConsistent(args, layout, m)
          [] n = 4 -> \E i \in 1..Len(index_preds) :
                         ~PredHolds(index_preds[i], args, layout, m)
          [] n = 5 -> ~DTypesAllowed(args.dtypes)
          [] n = 6 -> \E ex \in excluded : Matches(ex, args.dtypes, m, layout)

\* none of the first n predicate nodes reports an error
RECURSIVE NoReport(_, _)
NoReport(n, args) == n = 0 \/ (NoReport(n - 1, args) /\ ~Reports(n, args))

\* _check_args leaves a terminal status: Success when no node reports an
\* error, and otherwise the failure of the first node that reports one, the
\* nodes after it, the predicted shapes among them, not being evaluated
StatusIsFirstFailure ==
    (arguments' = arguments /\ ret' = ret /\ Alone(check_args)) =>
        /\ input_status' \in {"Success"} \cup Range(FailureOrder)
        /\ input_status' = "Success" <=> NoReport(Len(FailureOrder), arguments)
        /\ \A n \in 1..Len(FailureOrder) :
              input_status' = FailureOrder[n] <=>
                  (NoReport(n - 1, arguments) /\ Reports(n, arguments))
        /\ input_status' # "Success" => predicted' = <<>>

\* a call is prepared and its arguments are not checked yet
Unchecked == finalized /\ arguments # NoArguments /\ input_status = "None"

\* C18: the input check of a call always ends in exactly one terminal status,
\* Success when no predicate node reports an error and the first failure
\* encountered otherwise; the status is never left unset by _check_args
C18_TerminalStatus ==
    /\ [][StatusIsFirstFailure]_vars
    /\ Unchecked ~> input_status # "None"

\* a checked call whose arguments make two predicate nodes fail, with the
\* status of the first of them
C18_Witness ==
    /\ finalized
    /\ arguments # NoArguments
    /\ input_status = "OptionNotInSetFailure"
    /\ ~DTypesAllowed(arguments.dtypes)
    /\ ValidRankMaps(arguments, LayoutOf(arguments)) = {}

\* a predicted return shape has no returned tensor of that shape at its place
Diverges(op_return) ==
    LET actual == IF op_return[1] = "tensor" THEN <<op_return[2]>> ELSE op_return[2]
    IN  \E i \in 1..Len(predicted) :
            ~(i \in 1..Len(actual) /\ actual[i] = predicted[i])

ReturnCheckedAfterSuccess ==
    \A op_return \in OpReturns :
        (ret'.op = "_check_return" /\ Alone(check_return(op_return))) =>
            /\ input_status # "Success" =>
                  /\ ret'.raised = "none"
                  /\ returns' = returns
            /\ input_status = "Success" =>
                  /\ returns' = (IF op_return[1] = "tensor" THEN <<op_return[2]>>
                                 ELSE op_return[2])
                  /\ ret'.raised = "SchemaError" <=> Diverges(op_return)
                  /\ ret'.raised \in {"none", "SchemaError"}

\* C19: _check_return does nothing, raises nothing and stores no returns when
\* input_status is not Success; when it is Success, it raises SchemaError
\* exactly when a predicted return shape differs from the returned one
C19_ReturnCheckedAfterSuccess == [][ReturnCheckedAfterSuccess]_vars

\* a successful input check followed by a return of another shape than the
\* predicted one, on which _check_return raised
C19_Witness ==
    /\ input_status = "Success"
    /\ ret.op = "_check_return"
    /\ ret.raised = "SchemaError"
    /\ returns # <<>>
    /\ returns # predicted

-----------------------------------------------------------------------------
(* Properties of interleaved calls *)

\* the status and the outcome of _check_return that the call of caller c has
\* when no other call is made
AloneStatus(c) == CheckStatus(calls[c].args)

AloneRaised(c) ==
    IF /\ AloneStatus(c) = "Success"
       /\ ReturnError(AsList(calls[c].op_return), PredictedShapes(calls[c].args))
    THEN "SchemaError" ELSE "none"

\* C20: each of two interleaved calls of a finished schema obtains the status
\* it obtains when run alone, and between its steps the arguments and the
\* input_status of the schema are those of the call
C20_CallsIsolated ==
    \A c \in CallIds :
        /\ calls[c].step = "prepared" =>
              /\ arguments = calls[c].args
              /\ input_status = "None"
        /\ calls[c].step \in {"checked", "returned", "done"} =>
              calls[c].status = AloneStatus(c)
        /\ calls[c].step \in {"checked", "returned"} =>
              /\ arguments = calls[c].args
              /\ input_status = calls[c].status
        /\ calls[c].step = "done" => calls[c].raised = AloneRaised(c)

-----------------------------------------------------------------------------
(* Properties of repeated calls *)

\* the call of caller c has been checked
Checked(c) == calls[c].step \in {"checked", "returned", "done"}

\* the ranks, dimensions and dtypes a check of the arguments resolves
Resolved(args) ==
    << ValidRankMaps(args, LayoutOf(args)),
       IF CheckStatus(args) = "Success" THEN PredictedShapes(args) ELSE <<>>,
       args.dtypes >>

-----------------------------------------------------------------------------
(* Properties of repeated enumeration *)

\* a step of an enumeration: the registries are left as they were, and a run
\* after the first yields what the run before it yielded
Restartable ==
    /\ (finalized /\ enum_status # "none" /\ gen_configs' = gen_configs
          /\ enumerate_again) =>
            /\ yielded' = yielded
            /\ enum_status' = enum_status
    /\ (finalized /\ gen_configs # <<>> /\ generate_again) =>
            /\ gen_configs' = gen_configs
            /\ yielded' = yielded
    /\ (finalized /\ finalized' /\ ret' = ret
          /\ (yielded' # yielded \/ gen_configs' # gen_configs
                \/ enum_status' # enum_status)) =>
            UNCHANGED <<rankReg, sigReg, compReg, dtypeReg, optReg>>

-----------------------------------------------------------------------------
(* Properties of signatures *)

\* every letter of the signature is a registered index
Known(sig) == \A i \in 1..Len(sig) : sig[i] \in Range(index)

\* C23: a call that takes a signature with a letter that add_index did not
\* register raises and registers nothing, so that the signatures of the
\* tensors, of the returns, of the rank limits and of the rank constraints,
\* and the computed indices, hold registered letters only
C23_UnknownIndexRejected ==
    /\ \A t \in DOMAIN arg_sigs : \A l \in 1..Len(arg_sigs[t]) : Known(arg_sigs[t][l])
    /\ \A n \in 1..Len(ret_sigs) : \A l \in 1..Len(ret_sigs[n]) : Known(ret_sigs[n][l])
    /\ \A n \in 1..Len(rank_cons) :
          /\ Known(rank_cons[n].rank_sig)
          /\ rank_cons[n].source_idx # "" => rank_cons[n].source_idx \in Range(index)
    /\ \A sig \in DOMAIN mins \cup DOMAIN maxs : Known(sig)
    /\ \A c \in DOMAIN comp_indices : c \in Range(index)

-----------------------------------------------------------------------------
(* Properties of the positions of an exclude item *)

\* the value at position p of an item is one the field at p can take
WellFormed(fields, item) ==
    /\ Len(item) = Len(fields)
    /\ \A p \in 1..Len(fields) :
          CASE FieldKind(fields, p) = "tensor" ->
                  \/ item[p].kind = "None"
                  \/ dtype_expr_raises(item[p]) = "none"
            [] FieldKind(fields, p) = "index" -> item[p].kind \in {"None", "int"}
            [] FieldKind(fields, p) = "layout" ->
                  \/ item[p].kind = "None"
                  \/ item[p].kind = "int" /\ item[p].n \in 0..(num_layouts(formats) - 1)
            [] OTHER -> FALSE

\* the combinations an item denotes when each value is the value of the
\* field at its own position, None leaving the field open
Positional(fields, item) ==
    LET at(kind) == SelectSeq([p \in 1..Len(fields) |-> p],
                       LAMBDA p : FieldKind(fields, p) = kind /\ item[p].kind # "None")
        tpos == at("tensor")
        ipos == at("index")
        lpos == at("layout")
    IN  { Record(<< <<"tensors", [i \in 1..Len(tpos) |-> fields[tpos[i]]]>>,
                    <<"dtypes", dtypes>>,
                    <<"ranks", [idx \in { fields[ipos[i]] : i \in 1..Len(ipos) } |->
                                  item[CHOOSE p \in Range(ipos) :
                                          /\ fields[p] = idx
                                          /\ \A p2 \in Range(ipos) :
                                                fields[p2] = idx => p2 <= p].n]>>,
                    <<"layout", { item[lpos[i]].n : i \in 1..Len(lpos) }>> >>) :
            dtypes \in Product([i \in 1..Len(tpos) |-> dtype_expr(item[tpos[i]])]) }

\* a call of exclude_dtypes with well-formed items is accepted and adds the
\* combinations its items denote position by position
PositionalExclude ==
    \A ec \in ExCalls :
        (/\ pc = 9 /\ pc' = 10
         /\ ret'.op = "exclude_dtypes"
         /\ exclude_dtypes(ec[1], ec[2])
         /\ \A i \in 1..Len(ec[2]) : WellFormed(ec[1], ec[2][i])) =>
            /\ ret'.raised = "none"
            /\ excluded' = excluded \cup
                  UNION { Positional(ec[1], ec[2][i]) : i \in 1..Len(ec[2]) }

\* C24: each value of an exclude item is the value of the field at the same
\* position, for every ordering of the fields; None in any position, a
\* tensor position included, leaves the field open, and without ':layout'
\* the exclusion holds for every layout
C24_PositionalExclude == [][PositionalExclude]_vars

-----------------------------------------------------------------------------
(* Properties of a computed_index call that raises *)

\* a computed_index call that raises SchemaError leaves the predicates, the
\* pending edges, the templates, the rank constraints and the graph of the
\* computed dimensions as they were
AtomicOnFailure ==
    \A c \in OrderIndexes, input_indexes \in OrderInputs :
        (/\ ret'.op = "computed_index" /\ ret'.target = c
         /\ ret'.raised = "SchemaError"
         /\ computed_index(c, "pred", input_indexes, 0, <<>>)) =>
            /\ index_preds' = index_preds
            /\ pending_index_edges' = pending_index_edges
            /\ pending_pred_edges' = pending_pred_edges
            /\ comp_dims_templates' = comp_dims_templates
            /\ rank_cons' = rank_cons
            /\ comp_indices' = comp_indices
            /\ input_indices' = input_indices

\* C25: computed_index is atomic on failure: when it raises SchemaError the
\* predicate graph, the pending edge maps, comp_dims_templates, the rank
\* constraints and the computed-dimension graph are as before the call
C25_AtomicOnFailure == [][AtomicOnFailure]_vars

-----------------------------------------------------------------------------
(* Properties of the suggestions *)

\* the argument or the index a constraint constrains
Constrained(con) ==
    CASE con.cls = "ShapeRankConstraint" -> con.shape_arg
      [] con.cls = "SliceRankConstraint" -> con.arg_name
      [] con.cls = "IntRankConstraint" -> con.rank_arg
      [] con.cls = "DimRankConstraint" -> con.source_idx

Abs(n) == IF n < 0 THEN 0 - n ELSE n

\* C26: for a rank constraint of every kind, suggestion(rank_error) returns
\* None exactly when rank_error is 0, and for a nonzero rank_error a text
\* that names the constrained argument or index and the amount |rank_error|,
\* an increase or add for a negative error, a decrease or remove for a
\* positive one
C26_SuggestionNamesTheEdit ==
    diagnosis.op = "suggestion" =>
        LET con == diagnosis.con
            rank_err == diagnosis.input
            r == diagnosis.result
        IN  /\ r.raised = "none"
            /\ r.text = {} <=> rank_err = 0
            /\ \A t \in r.text :
                  /\ t.names = Constrained(con)
                  /\ t.by = Abs(rank_err)
                  /\ rank_err < 0 => t.edit \in {"Increase", "Add"}
                  /\ rank_err > 0 => t.edit \in {"Decrease", "Remove"}

-----------------------------------------------------------------------------
(* Properties of accumulated rank limits *)

\* the lower and the upper limits given for a signature so far
Lows(sig) == { Val(r[2]) : r \in { q \in registered : q[1] = sig /\ q[2] # {} } }

Highs(sig) == { Val(r[3]) : r \in { q \in registered : q[1] = sig /\ q[3] # {} } }

Largest(S) == CHOOSE x \in S : \A y \in S : y <= x

Smallest(S) == CHOOSE x \in S : \A y \in S : x <= y

\* C27, as stated: after any calls of add_rank_limits, mins[sig] is the
\* largest lower limit given for sig and maxs[sig] the smallest upper limit
\* given, absent when none was given
C27_LimitsIntersect ==
    \A sig \in LimitSigs :
        /\ sig \in DOMAIN mins <=> Lows(sig) # {}
        /\ sig \in DOMAIN maxs <=> Highs(sig) # {}
        /\ sig \in DOMAIN mins => mins[sig] = Largest(Lows(sig))
        /\ sig \in DOMAIN maxs => maxs[sig] = Smallest(Highs(sig))

\* C27, amended: mins[sig] is the largest of the lower limits given for sig
\* and the default -1, maxs[sig] the smallest of the upper limits given and
\* the default 10000, absent when none was given; they are functions of the
\* set of calls, so neither the order of the calls nor a repeated call
\* matters
C27_LimitsIntersectWithinDefaults ==
    \A sig \in LimitSigs :
        /\ sig \in DOMAIN mins <=> Lows(sig) # {}
        /\ sig \in DOMAIN maxs <=> Highs(sig) # {}
        /\ sig \in DOMAIN mins => mins[sig] = Largest(Lows(sig) \cup {DefaultMin})
        /\ sig \in DOMAIN maxs => maxs[sig] = Smallest(Highs(sig) \cup {DefaultMax})

\* three different calls for one signature, with several lower and several
\* upper limits, after which mins holds the largest lower limit and maxs
\* the smallest upper limit
C27_Witness ==
    /\ pc = MaxLimitCalls
    /\ ret.op = "add_rank_limits"
    /\ \E sig \in LimitSigs :
          /\ Cardinality(Lows(sig)) > 1
          /\ Cardinality(Highs(sig)) > 1
          /\ Cardinality({ q \in registered : q[1] = sig }) = MaxLimitCalls
          /\ mins[sig] = Largest(Lows(sig))
          /\ maxs[sig] = Smallest(Highs(sig))
          /\ maxs[sig] < DefaultMax

-----------------------------------------------------------------------------
(* Properties of the graph of the computed dimensions *)

\* C28: after any accepted computed_index and rank_dims_constraint calls no
\* index is both an input index and a computed index of the graph of the
\* computed dimensions
C28_InputsAndComputedDisjoint ==
    input_indices \cap DOMAIN comp_indices = {}

-----------------------------------------------------------------------------
(* Properties of the range constraints *)

\* C29: with no available edits, SumRangeConstraint for RANK(sig) in
\* [lo, hi] returns the range of the values the remaining ranks may add for
\* the total to stay in [lo, hi]; when the ranks already assigned exceed hi
\* the range admits no value
C29_ResidualRange ==
    (/\ diagnosis.op = "SumRangeConstraint"
     /\ diagnosis.con.avail_edits = 0
     /\ diagnosis.con.lo <= diagnosis.con.hi) =>
        LET con == diagnosis.con
            residual == Residual(con.sig, diagnosis.input)
            range == diagnosis.result
        IN  \A v \in 0..(RankCap + 1) :
                (range[1] <= v /\ v <= range[2]) <=>
                    (con.lo <= residual + v /\ residual + v <= con.hi)

-----------------------------------------------------------------------------
(* Properties of the rank error and of the highlight map *)

\* C30: the rank error is the observed rank less the rank computed from the
\* candidate ranks, and 0 for an integer shape, which determines no rank;
\* the highlight map of a ShapeRankConstraint marks |rank_error| positions
\* of the argument, those from the smaller of the observed and the computed
\* rank up to the larger
C30_RankErrorAndHighlight ==
    LET o == diagnosis.input
        computed == SigRank(o.sig, o.rank_map)
        err == IF o.shape.kind = "int" THEN 0 ELSE Len(o.shape.dims) - computed
    IN  /\ diagnosis.op = "rank_error" => diagnosis.result = err
        /\ diagnosis.op = "highlight_map" =>
              /\ diagnosis.result.raised = "none"
              /\ Cardinality(diagnosis.result.inds) = Abs(err)
              /\ o.shape.kind = "list" =>
                    diagnosis.result.inds =
                        { i \in 0..RankCap + MaxLimit + MaxLimit :
                            /\ Min(Len(o.shape.dims), computed) <= i
                            /\ i < Max(Len(o.shape.dims), computed) }

====
